---- MODULE Spec2Model ----
(***************************************************************************)
(* A model of the dating-coach backend: the in-memory store, the HTTP      *)
(* handlers of server.ts, the mock photo verification, the scenario        *)
(* generator and the simulation aggregator.                                *)
(*                                                                         *)
(* Conventions.                                                            *)
(*  - A JavaScript string is a TLA+ string; template literals are built    *)
(*    with \o, String.includes is Includes.  Emoji are left out of the     *)
(*    literals.                                                            *)
(*  - A value that may be undefined is an option: <<>> is undefined/null,  *)
(*    <<v>> is the value v.                                                *)
(*  - uuidv4() and multer's random filenames are fresh numbers taken from  *)
(*    nextId; Date values are left out.                                    *)
(*  - Math.random() returns rnd / RandomDenominator for a numerator rnd in *)
(*    0 .. RandomDenominator - 1.                                          *)
(***************************************************************************)
EXTENDS Integers, Sequences, FiniteSets, TLC

VARIABLES
  \* storage.ts: the Storage singleton
  profile,            \* UserProfile | null
  chatHistory,        \* ChatMessage[]
  simulationResults,  \* SimulationSummary | null
  \* runSimulations / analyzeSimulations: one run, step by step
  simPc,              \* where the run is
  simProfile,         \* its profile argument
  simStream,          \* the Math.random() draws the run will see
  simIndex,           \* the loop variable i
  simulations,        \* the array the loop fills
  summary,            \* the SimulationSummary returned, or null
  \* server.ts: requests that are waiting at an await
  nextId,             \* the next uuidv4() / upload filename
  chatRequests,       \* POST /api/chat/message calls awaiting callLLM
  simRequests,        \* POST /api/simulations/run calls awaiting runSimulations
  photoRequests,      \* photo calls awaiting analyzePhotos
  \* what the clients saw
  lastStep,           \* the handler step taken last, with the request's input
  lastResponse,       \* the HTTP response sent last
  events,             \* the profile posts, uploads, chat calls and runs, in order
  photoCall,          \* a direct call of analyzePhotos: filenames, draw, result
  llmCall,            \* a direct call of callLLM: context, API outcome, result
  tipsCall,           \* a direct call of generateCoachingTips: arguments, result
  \* the frontend (App.tsx and the component it shows)
  currentStep,        \* useState<AppStep>('onboarding')
  loading,            \* useState(true)
  appCheck,           \* checkExistingProfile: "idle", "pending" or "done"
  screen              \* the state of the component App renders

storeVars == <<profile, chatHistory, simulationResults>>
serverVars == <<nextId, chatRequests, simRequests, photoRequests,
                lastStep, lastResponse, events, photoCall, llmCall, tipsCall, tipsCall>>
runVars == <<simPc, simProfile, simStream, simIndex, simulations, summary>>
appVars == <<currentStep, loading, appCheck, screen>>
vars == <<storeVars, serverVars, runVars, appVars>>

(***************************************************************************)
(* Bounds of the model.                                                    *)
(***************************************************************************)
\* Resolution of the modelled Math.random(): draws are rnd / RandomDenominator.
RandomDenominator == 70
\* Longest batch of scenario records handed to the aggregator in SpecBatch.
MaxBatch == 6
\* The ids (message ids, profile ids, upload filenames) the server may hand out.
MaxId == 6
\* The requests that may wait at an await at the same time.
MaxInFlight == 2
\* The chat calls already answered when SpecLongChat starts.
MaxPastChats == 6
\* Longest filename list of a direct analyzePhotos call.
MaxPhotoPaths == 3

(***************************************************************************)
(* Program constants.                                                      *)
(***************************************************************************)
NumSimulations == 50
ScoreBase == 60
ScoreSpan == 35
TopArchetypesLimit == 5
CommonIssuesLimit == 3
CoachingTipsLimit == 5
ImprovementsLimit == 4
MaxUploadFiles == 3

(***************************************************************************)
(* JavaScript helpers.                                                     *)
(***************************************************************************)
\* String.prototype.includes
Includes(s, sub) ==
  \E k \in 1..(Len(s) - Len(sub) + 1) : SubSeq(s, k, k + Len(sub) - 1) = sub

None == <<>>
Some(v) == <<v>>
IsDefined(o) == Len(o) = 1
Val(o) == o[1]

\* `${v}` for a string that may be undefined
Str(o) == IF IsDefined(o) THEN Val(o) ELSE "undefined"

\* The elements of a sequence, as a set.
Range(s) == {s[k] : k \in 1..Len(s)}

\* Array.prototype.slice(0, n)
Slice0(s, n) == SubSeq(s, 1, IF Len(s) < n THEN Len(s) ELSE n)

\* Array.prototype.filter
RECURSIVE FilterDefined(_)
FilterDefined(s) ==
  IF s = <<>> THEN <<>>
  ELSE IF IsDefined(Head(s)) THEN <<Val(Head(s))>> \o FilterDefined(Tail(s))
       ELSE FilterDefined(Tail(s))

RECURSIVE Sum(_)
Sum(s) == IF s = <<>> THEN 0 ELSE Head(s) + Sum(Tail(s))

\* Math.floor(Math.random() * n) for the draw rnd / RandomDenominator
FloorRandomTimes(rnd, n) == (rnd * n) \div RandomDenominator

(***************************************************************************)
(* llm.ts: the scenario generator.                                         *)
(***************************************************************************)
archetypes == <<
  "Adventurous Extrovert",
  "Thoughtful Introvert",
  "Creative Free Spirit",
  "Ambitious Professional",
  "Laid-back Homebody",
  "Social Butterfly",
  "Intellectual Conversationalist",
  "Outdoor Enthusiast",
  "Art & Culture Lover",
  "Fitness Enthusiast" >>

\* The last slot is null: no issue for some scenarios.
issuesNullFirst == <<
  None,
  Some("May come across as too eager - balance enthusiasm with letting conversation breathe"),
  Some("Could benefit from asking more follow-up questions to show genuine interest"),
  Some("Responses might be too brief - consider sharing a bit more to keep momentum"),
  Some("Watch for over-sharing too early - build rapport gradually") >>
issues == <<
  Some("May come across as too eager - balance enthusiasm with letting conversation breathe"),
  Some("Could benefit from asking more follow-up questions to show genuine interest"),
  Some("Responses might be too brief - consider sharing a bit more to keep momentum"),
  Some("Watch for over-sharing too early - build rapport gradually"),
  None >>

\* arr[n % arr.length]
AtModUnwrapped(arr, n) == arr[IF n < Len(arr) THEN n + 1 ELSE Len(arr)]
AtMod(arr, n) == arr[(n % Len(arr)) + 1]

openers(scenarioNumber) == <<
  "Hey! I noticed you mentioned "
    \o AtMod(<<"hiking", "reading", "cooking", "traveling">>, scenarioNumber)
    \o " in your profile. What got you into that?",
  "Hi there! Your profile caught my eye - you seem like someone who "
    \o AtMod(<<"values authenticity", "loves adventure", "enjoys deep conversations",
               "has great energy">>, scenarioNumber)
    \o ".",
  "Hey! Quick question: "
    \o AtMod(<<"coffee or tea?", "beach or mountains?", "morning person or night owl?",
               "cook at home or try new restaurants?">>, scenarioNumber),
  "Hi! I had to reach out - "
    \o AtMod(<<"your smile is contagious", "you seem like you'd be fun to talk to",
               "we have similar interests", "your vibe seems amazing">>, scenarioNumber)
    \o "." >>

\* const compatibilityScore = 60 + Math.floor(Math.random() * 35)
compatibilityScore(rnd) == ScoreBase + FloorRandomTimes(rnd, ScoreSpan)

\* generateSimulation(profileSummary, scenarioNumber); rnd is its Math.random() draw.
generateSimulation(profileSummary, scenarioNumber, rnd) ==
  [ match_archetype       |-> AtMod(archetypes, scenarioNumber),
    match_initial_message |-> AtMod(openers(scenarioNumber), scenarioNumber),
    user_expected_reply   |-> "Likely positive and engaged, with reciprocal interest",
    compatibility_score   |-> compatibilityScore(rnd),
    potential_issue       |-> AtMod(issues, scenarioNumber) ]

\* analyzeVibe: calls callLLM, drops its answer and returns this record.
vibeAnalysisResult ==
  [ overall_tone        |-> "positive",
    energy_level        |-> "medium-high",
    communication_style |-> "friendly and direct",
    key_traits          |-> <<"enthusiastic", "curious", "thoughtful", "authentic">> ]

(***************************************************************************)
(* simulations.ts: the aggregator.                                         *)
(***************************************************************************)
\* Math.round(num / den) for den > 0: the nearest integer, a half rounds up.
MathRound(num, den) == (2 * num + den) \div (2 * den)

\* The folds below carry an accumulator; `Len(acc) >= 0`, which is always true,
\* only makes TLC evaluate the accumulator at every step instead of at the end.

\* archetypeScores: a Map, kept as its entries in insertion order.
ArchetypeScoresSet(map, archetype, score) ==
  IF \E k \in 1..Len(map) : map[k].archetype = archetype
  THEN [k \in 1..Len(map) |->
          IF map[k].archetype = archetype
          THEN [map[k] EXCEPT !.scores = Append(@, score)]
          ELSE map[k]]
  ELSE Append(map, [archetype |-> archetype, scores |-> <<score>>])

RECURSIVE archetypeScoresFrom(_, _)
archetypeScoresFrom(map, sims) ==
  IF Len(map) >= 0 /\ sims = <<>> THEN map
  ELSE archetypeScoresFrom(
         ArchetypeScoresSet(map, Head(sims).match_archetype, Head(sims).compatibility_score),
         Tail(sims))

archetypeScores(sims) == archetypeScoresFrom(<<>>, sims)

\* avgScore = scores.reduce((a, b) => a + b, 0) / scores.length, kept as the exact
\* fraction num / den (the sums are far too small for a double to round two
\* different fractions to one value).
avgScore(scores) == [num |-> Sum(scores), den |-> Len(scores)]

\* The comparator (a, b) => b.avgScore - a.avgScore: positive puts a after b.
CompareAvgScoreAscending(a, b) == a.avgScore.num * b.avgScore.den - b.avgScore.num * a.avgScore.den
CompareAvgScore(a, b) == b.avgScore.num * a.avgScore.den - a.avgScore.num * b.avgScore.den

\* Array.prototype.sort is stable: an insertion sort that puts an item behind
\* every item it does not have to precede.
RECURSIVE InsertByAvgScore(_, _)
InsertByAvgScore(sorted, x) ==
  IF sorted = <<>> THEN <<x>>
  ELSE IF CompareAvgScore(Head(sorted), x) > 0 THEN <<x>> \o sorted
       ELSE <<Head(sorted)>> \o InsertByAvgScore(Tail(sorted), x)

RECURSIVE SortByAvgScoreFrom(_, _)
SortByAvgScoreFrom(sorted, items) ==
  IF Len(sorted) >= 0 /\ items = <<>> THEN sorted
  ELSE SortByAvgScoreFrom(InsertByAvgScore(sorted, Head(items)), Tail(items))

SortByAvgScore(items) == SortByAvgScoreFrom(<<>>, items)

TopArchetypesSlice(sorted) == Slice0(sorted, TopArchetypesLimit)

topArchetypes(sims) ==
  LET entries == archetypeScores(sims)
      scored  == [k \in 1..Len(entries) |->
                    [archetype |-> entries[k].archetype,
                     avgScore  |-> avgScore(entries[k].scores)]]
      top     == TopArchetypesSlice(SortByAvgScore(scored))
  IN  [k \in 1..Len(top) |-> top[k].archetype]

\* issues = simulations.map(sim => sim.potential_issue).filter(not null, not undefined)
IssuesKeepNull(sims) ==
  [k \in 1..Len(sims) |->
     IF IsDefined(sims[k].potential_issue) THEN Val(sims[k].potential_issue) ELSE "null"]
IssuesOf(sims) == FilterDefined([k \in 1..Len(sims) |-> sims[k].potential_issue])

\* issueFrequency: a Map, kept as its entries <<issue, count>> in insertion order.
IssueFrequencySet(map, issue) ==
  IF \E k \in 1..Len(map) : map[k][1] = issue
  THEN [k \in 1..Len(map) |->
          IF map[k][1] = issue THEN <<issue, map[k][2] + 1>> ELSE map[k]]
  ELSE Append(map, <<issue, 1>>)

RECURSIVE issueFrequencyFrom(_, _)
issueFrequencyFrom(map, list) ==
  IF Len(map) >= 0 /\ list = <<>> THEN map
  ELSE issueFrequencyFrom(IssueFrequencySet(map, Head(list)), Tail(list))

issueFrequency(list) == issueFrequencyFrom(<<>>, list)

\* The comparator (a, b) => b[1] - a[1] (0-based: index 1 is the count).
CompareCount(a, b) == b[2] - a[2]

RECURSIVE InsertByCount(_, _)
InsertByCount(sorted, x) ==
  IF sorted = <<>> THEN <<x>>
  ELSE IF CompareCount(Head(sorted), x) > 0 THEN <<x>> \o sorted
       ELSE <<Head(sorted)>> \o InsertByCount(Tail(sorted), x)

RECURSIVE SortByCountFrom(_, _)
SortByCountFrom(sorted, items) ==
  IF Len(sorted) >= 0 /\ items = <<>> THEN sorted
  ELSE SortByCountFrom(InsertByCount(sorted, Head(items)), Tail(items))

\* A sort that is not stable: entries of equal count come out in reverse.
SortByCountTiesReversed(items) == [k \in 1..Len(items) |-> items[Len(items) + 1 - k]]
SortByCount(items) == SortByCountFrom(<<>>, items)

commonIssues(sims) ==
  LET top == Slice0(SortByCount(issueFrequency(IssuesOf(sims))), CommonIssuesLimit)
  IN  [k \in 1..Len(top) |-> top[k][1]]

\* commonIssues.some(issue => issue.includes(word))
SomeIncludes(list, word) == \E k \in 1..Len(list) : Includes(list[k], word)

TipsUncut(tips) == tips
TipsSliceKeepLast(tips) ==
  IF Len(tips) > CoachingTipsLimit
  THEN SubSeq(tips, Len(tips) - CoachingTipsLimit + 1, Len(tips))
  ELSE tips
TipsSlice(tips) == Slice0(tips, CoachingTipsLimit)

generateCoachingTips(prof, vibeAnalysis, issueList, avgCompatibility) ==
  LET tone == prof.textingTone
      tips ==
        ( IF avgCompatibility >= 75
          THEN <<"Your vibe is strong! Keep being authentic and let your personality shine through.">>
          ELSE IF avgCompatibility >= 60
          THEN <<"You have good potential. Focus on showing more of your unique interests and values.">>
          ELSE <<"Consider refining your approach. Be more specific about your interests and what makes you unique.">> )
        \o
        ( IF tone.positivity < 50
          THEN <<"Try incorporating more positive language and enthusiasm in your messages.">>
          ELSE <<>> )
        \o
        ( IF tone.playfulness < 40
          THEN <<"Don't be afraid to be a bit more playful and show your sense of humor.">>
          ELSE IF tone.playfulness > 80
          THEN <<"Balance your playfulness with moments of genuine depth and sincerity.">>
          ELSE <<>> )
        \o
        ( IF tone.responseLength < 30
          THEN <<"Your responses might be too brief. Try sharing a bit more to keep conversations flowing.">>
          ELSE IF tone.responseLength > 80
          THEN <<"Keep your messages concise. Long responses can sometimes overwhelm the conversation.">>
          ELSE <<>> )
        \o
        ( IF SomeIncludes(issueList, "question")
          THEN <<"Ask more open-ended questions to show genuine interest and keep the conversation balanced.">>
          ELSE <<>> )
        \o
        ( IF \E k \in 1..Len(issueList) :
               Includes(issueList[k], "eager") \/ Includes(issueList[k], "enthusias")
          THEN <<"Let conversations breathe naturally. Sometimes less is more when building connection.">>
          ELSE <<>> )
  IN  TipsSlice(tips)

\* Throws a TypeError when profile.relationshipGoals is undefined.
generateOpeners(prof, vibeAnalysis) ==
  LET playful == prof.textingTone.playfulness > 60
  IN << "Hey! I noticed [specific detail from their profile] - that's really cool. What got you into that?",
        "Hi there! Your profile caught my eye. Quick question: "
          \o (IF Includes(Val(prof.relationshipGoals), "casual")
              THEN "what's your favorite spontaneous activity?"
              ELSE "what's something you're passionate about?"),
        "Hey! I had to reach out - "
          \o (IF playful THEN "you seem like you'd be fun to grab coffee with"
                         ELSE "we seem to have similar interests")
          \o ". How's your [day/week] going?",
        "Hi! I'm curious - [question based on their interests]. Also, "
          \o (IF playful THEN "coffee or tea? (This is important)"
                         ELSE "what brings you to [dating app]?"),
        "Hey there! I saw you mentioned [interest] in your profile. I'm actually into that too! What's been your recent favorite?" >>

\* buildOverallImpression with its upper band starting at 80 instead of 75.
buildOverallImpressionFromEighty(vibeAnalysis, avgCompatibility) ==
  LET tone   == vibeAnalysis.overall_tone
      energy == vibeAnalysis.energy_level
      style  == vibeAnalysis.communication_style
  IN  IF avgCompatibility >= 80
      THEN "You come across as " \o style \o " with a " \o tone \o " energy. Your " \o energy
           \o " enthusiasm is appealing and you seem genuinely interested in making connections. People likely find you approachable and authentic."
      ELSE IF avgCompatibility >= 60
      THEN "You have a " \o style \o " vibe with " \o tone
           \o " energy. While you're making good connections, there's room to let more of your personality shine through in conversations."
      ELSE "Your communication style is " \o style \o " but could benefit from more "
           \o (IF tone = "positive" THEN "consistency" ELSE "positivity")
           \o ". Focus on being more open and engaging in your approach."

buildOverallImpression(vibeAnalysis, avgCompatibility) ==
  LET tone   == vibeAnalysis.overall_tone
      energy == vibeAnalysis.energy_level
      style  == vibeAnalysis.communication_style
  IN  IF avgCompatibility >= 75
      THEN "You come across as " \o style \o " with a " \o tone \o " energy. Your " \o energy
           \o " enthusiasm is appealing and you seem genuinely interested in making connections. People likely find you approachable and authentic."
      ELSE IF avgCompatibility >= 60
      THEN "You have a " \o style \o " vibe with " \o tone
           \o " energy. While you're making good connections, there's room to let more of your personality shine through in conversations."
      ELSE "Your communication style is " \o style \o " but could benefit from more "
           \o (IF tone = "positive" THEN "consistency" ELSE "positivity")
           \o ". Focus on being more open and engaging in your approach."

\* Throws a TypeError when profile.bio is undefined.
identifyStrengths(prof, vibeAnalysis, avgCompatibility) ==
  LET tone == prof.textingTone
      strengths ==
        (IF tone.positivity >= 70 THEN <<"Positive and upbeat communication style">> ELSE <<>>)
        \o (IF tone.playfulness >= 60 THEN <<"Good sense of humor and playfulness">> ELSE <<>>)
        \o (IF Len(Val(prof.bio)) > 50 THEN <<"Clear about who you are and what you want">> ELSE <<>>)
        \o (IF avgCompatibility >= 70
            THEN <<"Strong overall compatibility with diverse personality types">> ELSE <<>>)
        \o (IF "authentic" \in Range(vibeAnalysis.key_traits)
            THEN <<"Authentic and genuine in your interactions">> ELSE <<>>)
        \o (IF tone.responseLength >= 40 /\ tone.responseLength <= 70
            THEN <<"Well-balanced message length - not too brief, not too long">> ELSE <<>>)
  IN  IF Len(strengths) > 0 THEN strengths
      ELSE <<"Open to new connections", "Willing to put yourself out there">>

\* Array.from(new Set(list)): the first occurrence of each element, in order.
RECURSIVE UniqueFrom(_, _)
UniqueFrom(kept, list) ==
  IF Len(kept) >= 0 /\ list = <<>> THEN kept
  ELSE UniqueFrom(IF Head(list) \in Range(kept) THEN kept ELSE Append(kept, Head(list)),
                  Tail(list))

Unique(list) == UniqueFrom(<<>>, list)

ImprovementFor(issue) ==
  IF Includes(issue, "question")
  THEN <<"Ask more engaging questions to show genuine curiosity">>
  ELSE IF Includes(issue, "eager")
  THEN <<"Let conversations develop naturally without rushing">>
  ELSE IF Includes(issue, "brief")
  THEN <<"Share more details to give matches something to respond to">>
  ELSE IF Includes(issue, "sharing")
  THEN <<"Build rapport gradually rather than over-sharing early">>
  ELSE <<>>

RECURSIVE ImprovementsOf(_)
ImprovementsOf(issueList) ==
  IF issueList = <<>> THEN <<>>
  ELSE ImprovementFor(Head(issueList)) \o ImprovementsOf(Tail(issueList))

identifyImprovements(issueList, vibeAnalysis) ==
  Slice0(Unique(ImprovementsOf(issueList)), ImprovementsLimit)

AverageTruncated(sims) ==
  Sum([k \in 1..Len(sims) |-> sims[k].compatibility_score]) \div Len(sims)
averageCompatibility(sims) ==
  MathRound(Sum([k \in 1..Len(sims) |-> sims[k].compatibility_score]), Len(sims))

\* Whether analyzeSimulations throws (in generateOpeners or identifyStrengths).
analyzeSimulationsThrows(prof) ==
  ~IsDefined(prof.relationshipGoals) \/ ~IsDefined(prof.bio)

\* analyzeSimulations for a batch of at least one record and a profile it
\* does not throw on.
analyzeSimulations(sims, vibeAnalysis, prof) ==
  LET average == averageCompatibility(sims)
      common  == commonIssues(sims)
  IN  [ total_simulations     |-> 50,
        average_compatibility |-> average,
        top_archetypes        |-> topArchetypes(sims),
        common_issues         |-> common,
        coaching_tips         |-> generateCoachingTips(prof, vibeAnalysis, common, average),
        suggested_openers     |-> generateOpeners(prof, vibeAnalysis),
        vibe_analysis         |->
          [ overall_impression |-> buildOverallImpression(vibeAnalysis, average),
            strengths          |-> identifyStrengths(prof, vibeAnalysis, average),
            areas_to_improve   |-> identifyImprovements(common, vibeAnalysis) ] ]

(***************************************************************************)
(* Inputs of the simulation specifications.                                *)
(***************************************************************************)
\* A stored UserProfile (server.ts builds it; id 0 and no photos here).
StoredProfile(name, bio, goals, positivity, playfulness, responseLength) ==
  [ id                      |-> 0,
    name                    |-> Some(name),
    ageRange                |-> Some("25-34"),
    gender                  |-> Some("woman"),
    interestedIn            |-> Some("men"),
    bio                     |-> Some(bio),
    relationshipGoals       |-> Some(goals),
    textingTone             |-> [ positivity     |-> positivity,
                                  playfulness    |-> playfulness,
                                  responseLength |-> responseLength ],
    selfRatedAttractiveness |-> Some(3),
    photos                  |-> <<>> ]

ShortBio == "I like hiking."
LongBio == "Software engineer who loves hiking, cooking and long talks."

\* Tone values on both sides of every threshold the aggregator tests.
SimProfiles ==
  { StoredProfile("Ana", ShortBio, "casual", 0, 0, 0),
    StoredProfile("Ana", ShortBio, "casual", 49, 39, 29),
    StoredProfile("Bo", LongBio, "long-term", 50, 40, 30),
    StoredProfile("Bo", LongBio, "long-term", 70, 60, 70),
    StoredProfile("Bo", ShortBio, "unsure", 100, 81, 81) }

\* The profiles of the free batches: every tip rule fires for the first.
BatchProfiles ==
  { StoredProfile("Ana", ShortBio, "casual", 0, 0, 0),
    StoredProfile("Bo", LongBio, "long-term", 50, 40, 30),
    StoredProfile("Bo", ShortBio, "unsure", 100, 81, 81) }

\* The unseeded Math.random() of one run: draw k is
\* (start + k * step) mod RandomDenominator, over RandomDenominator.
MathRandom(stream, k) == (stream.start + k * stream.step) % RandomDenominator

RunStreams ==
  { [start |-> a, step |-> d] :
      a \in {0, 1, 20, 29, 30, 34, 35, 50, 68, 69}, d \in {0, 1, 7, 33, 35} }

\* The draws a record of a free batch may see.
BatchDraws == {0, RandomDenominator - 1}
\* A free batch takes its next record from index i + 1 or i + 10.
BatchSteps == {1, 10}

NoStream == [start |-> 0, step |-> 0]

\* The draws of the runs the server makes: all scores 60, and scores
\* alternating between two values.
ServerStreams == {[start |-> 0, step |-> 0], [start |-> 34, step |-> 35]}

\* The draws analyzePhotos may see behind the endpoints: confidence 80, 84, 85, 94.
PhotoDraws == {0, 23, 24, RandomDenominator - 1}

StoreInit ==
  /\ profile = None
  /\ chatHistory = <<>>
  /\ simulationResults = None

\* No request has been made.
\* App before its first render: the initial values of its useState calls.
NoScreen == [component |-> "Loading"]
AppIdle ==
  /\ currentStep = "onboarding"
  /\ loading = TRUE
  /\ appCheck = "idle"
  /\ screen = NoScreen

ServerInit ==
  /\ nextId = 1
  /\ chatRequests = {}
  /\ simRequests = {}
  /\ photoRequests = {}
  /\ lastStep = [name |-> "none", input |-> <<>>]
  /\ lastResponse = [status |-> 0, body |-> [success |-> FALSE]]
  /\ events = <<>>
  /\ photoCall = None
  /\ llmCall = None
  /\ tipsCall = None
  /\ AppIdle

(***************************************************************************)
(* SpecRun: runSimulations(profile, chatHistory), one await at a time.     *)
(***************************************************************************)
RunInit ==
  /\ StoreInit
  /\ ServerInit
  /\ simPc = "start"
  /\ simProfile \in SimProfiles
  /\ simStream \in RunStreams
  /\ simIndex = 0
  /\ simulations = <<>>
  /\ summary = None

\* Array.prototype.join
RECURSIVE Join(_, _)
Join(list, sep) ==
  IF list = <<>> THEN ""
  ELSE IF Len(list) = 1 THEN Head(list)
  ELSE Head(list) \o sep \o Join(Tail(list), sep)

\* Array.prototype.slice(-n)
SliceLastKeepAll(s, n) == s
SliceLast(s, n) == SubSeq(s, IF Len(s) > n THEN Len(s) - n + 1 ELSE 1, Len(s))

\* Array.prototype.filter(msg => msg.sender === 'user').map(msg => msg.content)
RECURSIVE UserContents(_)
UserContents(history) ==
  IF history = <<>> THEN <<>>
  ELSE (IF Head(history).sender = "user" THEN <<Head(history).content>> ELSE <<>>)
       \o UserContents(Tail(history))

\* `${n}` for a number that may be undefined, with `|| fallback`
NumberOr(o, fallback) == IF IsDefined(o) /\ Val(o) # 0 THEN ToString(Val(o)) ELSE fallback

\* String.prototype.trim, for the white space the templates hold
IsSpace(c) == c = " " \/ c = "\n"
RECURSIVE TrimStart(_)
TrimStart(s) ==
  IF Len(s) > 0 /\ IsSpace(SubSeq(s, 1, 1)) THEN TrimStart(SubSeq(s, 2, Len(s))) ELSE s
RECURSIVE TrimEnd(_)
TrimEnd(s) ==
  IF Len(s) > 0 /\ IsSpace(SubSeq(s, Len(s), Len(s)))
  THEN TrimEnd(SubSeq(s, 1, Len(s) - 1)) ELSE s
Trim(s) == TrimEnd(TrimStart(s))

\* buildProfileSummary(profile, chatHistory); generateSimulation never reads it.
buildProfileSummary(p, history) ==
  LET userMessages == SliceLast(UserContents(history), 10)
  IN  Trim("\nProfile Summary:\n- Name: " \o Str(p.name)
           \o "\n- Age Range: " \o Str(p.ageRange)
           \o "\n- Gender: " \o Str(p.gender)
           \o "\n- Interested In: " \o Str(p.interestedIn)
           \o "\n- Bio: " \o Str(p.bio)
           \o "\n- Relationship Goals: " \o Str(p.relationshipGoals)
           \o "\n- Texting Style: " \o ToString(p.textingTone.positivity) \o "% positive, "
           \o ToString(p.textingTone.playfulness) \o "% playful, "
           \o ToString(p.textingTone.responseLength) \o "% verbose"
           \o "\n- Self-rated Attractiveness: "
           \o NumberOr(p.selfRatedAttractiveness, "Not specified") \o "/5"
           \o "\n- Recent Messages: " \o Join(userMessages, " | ") \o "\n")

\* Lines 13-24: the profile summary, then `await analyzeVibe(...)`, then the empty array.
RunStart ==
  /\ simPc = "start"
  /\ simPc' = "loop"
  /\ simIndex' = 0
  /\ simulations' = <<>>
  /\ UNCHANGED <<simProfile, simStream, summary, storeVars, serverVars, appVars>>

\* One iteration of `for (let i = 0; i < 50; i++)`.
RunGenerateEveryOther ==
  /\ simPc = "loop"
  /\ simIndex < NumSimulations
  /\ simulations' = Append(simulations,
        generateSimulation(buildProfileSummary(simProfile, <<>>), simIndex,
                           MathRandom(simStream, simIndex)))
  /\ simIndex' = simIndex + 2
  /\ UNCHANGED <<simPc, simProfile, simStream, summary, storeVars, serverVars, appVars>>
RunGenerate ==
  /\ simPc = "loop"
  /\ simIndex < NumSimulations
  /\ simulations' = Append(simulations,
        generateSimulation(buildProfileSummary(simProfile, <<>>), simIndex,
                           MathRandom(simStream, simIndex)))
  /\ simIndex' = simIndex + 1
  /\ UNCHANGED <<simPc, simProfile, simStream, summary, storeVars, serverVars, appVars>>

\* The loop is over: `await analyzeSimulations(...)` and return the summary.
RunAnalyze ==
  /\ simPc = "loop"
  /\ ~(simIndex < NumSimulations)
  /\ IF analyzeSimulationsThrows(simProfile)
     THEN simPc' = "threw" /\ summary' = None
     ELSE /\ simPc' = "done"
          /\ summary' = Some(analyzeSimulations(simulations, vibeAnalysisResult, simProfile))
  /\ UNCHANGED <<simProfile, simStream, simIndex, simulations, storeVars, serverVars, appVars>>

RunNext == RunStart \/ RunGenerate \/ RunAnalyze

SpecRun == RunInit /\ [][RunNext]_vars

\* The event loop resumes a run that waits at an await of an async function
\* that does nothing but compute: a run that can take a step takes it. For
\* RunAnalyze, weak fairness is written with the condition under which it is
\* enabled (the only step from there is RunAnalyze, which leaves it).
RunAnalyzeEnabled == simPc = "loop" /\ ~(simIndex < NumSimulations)
SpecRunFair ==
  SpecRun /\ WF_vars(RunStart \/ RunGenerate) /\ []<>(~RunAnalyzeEnabled)

(***************************************************************************)
(* SpecBatch: analyzeSimulations on any batch of generated records.        *)
(***************************************************************************)
BatchInit ==
  /\ StoreInit
  /\ ServerInit
  /\ simPc = "batch"
  /\ simProfile \in BatchProfiles
  /\ simStream = NoStream
  /\ simIndex = 0
  /\ simulations = <<>>
  /\ summary = None

\* Add generateSimulation(_, simIndex) with any draw, and move on to a later index.
BatchAppend ==
  /\ simPc = "batch"
  /\ Len(simulations) < MaxBatch
  /\ \E rnd \in BatchDraws, step \in BatchSteps :
       /\ simulations' = Append(simulations,
             generateSimulation(buildProfileSummary(simProfile, <<>>), simIndex, rnd))
       /\ simIndex' = simIndex + step
  /\ UNCHANGED <<simPc, simProfile, simStream, summary, storeVars, serverVars, appVars>>

BatchAnalyze ==
  /\ simPc = "batch"
  /\ Len(simulations) >= 1
  /\ simPc' = "done"
  /\ summary' = Some(analyzeSimulations(simulations, vibeAnalysisResult, simProfile))
  /\ UNCHANGED <<simProfile, simStream, simIndex, simulations, storeVars, serverVars, appVars>>

BatchNext == BatchAppend \/ BatchAnalyze

SpecBatch == BatchInit /\ [][BatchNext]_vars

(***************************************************************************)
(* storage.ts                                                              *)
(***************************************************************************)
\* saveProfile(profile): this.profile = profile
saveProfileOnce(p) == IF profile = None THEN Some(p) ELSE profile
saveProfile(p) == Some(p)

\* updateProfile(updates): this.profile = { ...this.profile, ...updates }
updateProfileAddingPhotos(current, updates) ==
  IF current = None THEN None
  ELSE Some([f \in DOMAIN Val(current) |->
               IF f \notin DOMAIN updates THEN Val(current)[f]
               ELSE IF f = "photos" THEN Val(current)[f] \o updates[f]
               ELSE updates[f]])
updateProfile(current, updates) ==
  IF current = None THEN None
  ELSE Some([f \in DOMAIN Val(current) |->
               IF f \in DOMAIN updates THEN updates[f] ELSE Val(current)[f]])

\* addMessage(message): this.chatHistory.push(message)
addMessagePrepend(history, message) == <<message>> \o history
addMessageOverLast(history, message) ==
  IF history = <<>> THEN <<message>> ELSE [history EXCEPT ![Len(history)] = message]
addMessage(history, message) == Append(history, message)

\* saveSimulationResults(results): this.simulationResults = results
saveSimulationResultsNever(results) == None
saveSimulationResultsOnce(results) ==
  IF simulationResults = None THEN Some(results) ELSE simulationResults
saveSimulationResults(results) == Some(results)

(***************************************************************************)
(* photoVerification.ts                                                    *)
(***************************************************************************)
\* The thresholds of analyzePhotos with `>= 85` written as `> 85`.
analyzePhotosStrictThreshold(photoPaths, rnd) ==
  IF Len(photoPaths) = 0
  THEN [status |-> "failed", confidence |-> 0, message |-> "No photos provided"]
  ELSE IF Len(photoPaths) = 1
  THEN [status |-> "success", confidence |-> 75,
        message |-> "Single photo uploaded. Consider adding more photos for better verification."]
  ELSE LET mockConfidence == 80 + FloorRandomTimes(rnd, 15)
       IN  IF mockConfidence > 85
           THEN [status |-> "success", confidence |-> mockConfidence,
                 message |-> "Photos appear consistent. Likely same person across all images."]
           ELSE [status |-> "inconclusive", confidence |-> mockConfidence,
                 message |-> "Photos have some consistency but verification is inconclusive. This is just a basic check."]

\* analyzePhotos with a confidence drawn from 60 on instead of 80.
analyzePhotosFromSixty(photoPaths, rnd) ==
  IF Len(photoPaths) = 0
  THEN [status |-> "failed", confidence |-> 0, message |-> "No photos provided"]
  ELSE IF Len(photoPaths) = 1
  THEN [status |-> "success", confidence |-> 75,
        message |-> "Single photo uploaded. Consider adding more photos for better verification."]
  ELSE LET mockConfidence == 60 + FloorRandomTimes(rnd, 15)
       IN  IF mockConfidence >= 85
           THEN [status |-> "success", confidence |-> mockConfidence,
                 message |-> "Photos appear consistent. Likely same person across all images."]
           ELSE IF mockConfidence >= 70
           THEN [status |-> "inconclusive", confidence |-> mockConfidence,
                 message |-> "Photos have some consistency but verification is inconclusive. This is just a basic check."]
           ELSE [status |-> "failed", confidence |-> mockConfidence,
                 message |-> "Photos appear inconsistent. Please ensure all photos are of yourself."]

\* analyzePhotos(photoPaths), after its one-second wait; rnd is the Math.random()
\* draw of the branch for two or more photos.
analyzePhotos(photoPaths, rnd) ==
  IF Len(photoPaths) = 0
  THEN [status |-> "failed", confidence |-> 0, message |-> "No photos provided"]
  ELSE IF Len(photoPaths) = 1
  THEN [status |-> "success", confidence |-> 75,
        message |-> "Single photo uploaded. Consider adding more photos for better verification."]
  ELSE LET mockConfidence == 80 + FloorRandomTimes(rnd, 15)
       IN  IF mockConfidence >= 85
           THEN [status |-> "success", confidence |-> mockConfidence,
                 message |-> "Photos appear consistent. Likely same person across all images."]
           ELSE IF mockConfidence >= 70
           THEN [status |-> "inconclusive", confidence |-> mockConfidence,
                 message |-> "Photos have some consistency but verification is inconclusive. This is just a basic check."]
           ELSE [status |-> "failed", confidence |-> mockConfidence,
                 message |-> "Photos appear inconsistent. Please ensure all photos are of yourself."]

(***************************************************************************)
(* llm.ts: callLLM                                                         *)
(***************************************************************************)
Upper == "ABCDEFGHIJKLMNOPQRSTUVWXYZ"
Lower == "abcdefghijklmnopqrstuvwxyz"
LowerChar(c) ==
  IF \E k \in 1..Len(Upper) : SubSeq(Upper, k, k) = c
  THEN LET k == CHOOSE j \in 1..Len(Upper) : SubSeq(Upper, j, j) = c
       IN  SubSeq(Lower, k, k)
  ELSE c

\* String.prototype.toLowerCase
RECURSIVE ToLowerCase(_)
ToLowerCase(s) ==
  IF Len(s) = 0 THEN ""
  ELSE IF Len(s) = 1 THEN LowerChar(s)
  ELSE ToLowerCase(SubSeq(s, 1, Len(s) \div 2))
       \o ToLowerCase(SubSeq(s, Len(s) \div 2 + 1, Len(s)))

\* What anthropic.messages.create does: it answers with a text block, answers
\* without one, or throws.
LLMOutcomes ==
  { [ok |-> TRUE, text |-> Some("Tell me more about your last date.")],
    [ok |-> TRUE, text |-> None],
    [ok |-> FALSE, text |-> None] }

\* The catch block: the mock response for the last message of the context.
FallbackResponseTipsFirst(lastMessage) ==
  IF Includes(lastMessage, "coaching") \/ Includes(lastMessage, "tips")
  THEN "Here are some personalized tips:"
  ELSE IF Includes(lastMessage, "analyze") /\ Includes(lastMessage, "vibe")
  THEN "Based on your texting style, you come across as friendly and approachable."
  ELSE IF Includes(lastMessage, "simulation") \/ Includes(lastMessage, "scenario")
  THEN "{\"match_archetype\":\"Adventurous Extrovert\"}"
  ELSE IF Includes(lastMessage, "check in") \/ Includes(lastMessage, "feeling")
  THEN "I'd love to check in with you!"
  ELSE "That's interesting! Tell me more about that."
FallbackResponse(lastMessage) ==
  IF Includes(lastMessage, "analyze") /\ Includes(lastMessage, "vibe")
  THEN "Based on your texting style, you come across as friendly and approachable. You tend to use positive language and seem genuinely interested in getting to know people. Your responses are thoughtful but not overly long, which keeps conversations flowing naturally."
  ELSE IF Includes(lastMessage, "simulation") \/ Includes(lastMessage, "scenario")
  THEN "{\"match_archetype\":\"Adventurous Extrovert\",\"match_initial_message\":\"Hey! I saw you mentioned hiking in your profile. What's been your favorite trail lately?\",\"user_expected_reply\":\"Likely positive and enthusiastic, probably sharing a recent experience\",\"compatibility_score\":78,\"potential_issue\":\"May need to balance enthusiasm with asking follow-up questions to show genuine interest\"}"
  ELSE IF Includes(lastMessage, "coaching") \/ Includes(lastMessage, "tips")
  THEN "Here are some personalized tips:\n1. Lead with specific details - instead of \"hi how are you\", try referencing something from their profile\n2. Ask open-ended questions that invite storytelling\n3. Balance sharing about yourself with showing curiosity about them\n4. Use your natural enthusiasm - it's one of your strengths!"
  ELSE IF Includes(lastMessage, "check in") \/ Includes(lastMessage, "feeling")
  THEN "I'd love to check in with you! How has your dating experience been lately? Have you noticed any patterns in your conversations, or is there anything you'd like to work on together?"
  ELSE "That's interesting! Tell me more about that. I'm here to help you become the best version of yourself in the dating world. What would you like to focus on today?"

\* Whether callLLM(messages) throws: its catch block covers the whole call,
\* and itself reads messages[messages.length - 1].content.
callLLMThrowsOnFailure(messages, outcome) == ~outcome.ok
callLLMThrows(messages, outcome) == ~outcome.ok /\ Len(messages) = 0

\* callLLM(messages), given what the API call does.
callLLM(messages, outcome) ==
  IF outcome.ok
  THEN IF IsDefined(outcome.text) THEN Val(outcome.text) ELSE ""
  ELSE FallbackResponse(ToLowerCase(messages[Len(messages)].content))

(***************************************************************************)
(* simulations.ts: runSimulations as one call.                             *)
(***************************************************************************)
\* The whole of runSimulations(profile, chatHistory) for a profile it does not
\* throw on: the 50 records for the run's draws, then analyzeSimulations.
runSimulations(prof, history, stream) ==
  LET profileSummary == buildProfileSummary(prof, history)
      batch == [k \in 1..NumSimulations |->
                  generateSimulation(profileSummary, k - 1, MathRandom(stream, k - 1))]
  IN  analyzeSimulations(batch, vibeAnalysisResult, prof)

(***************************************************************************)
(* server.ts: the HTTP handlers.                                           *)
(***************************************************************************)
\* obj.key, undefined when the body has no such property
Get(obj, key) == IF key \in DOMAIN obj THEN Some(obj[key]) ELSE None

\* `n || fallback` for a number that may be undefined: 0 is falsy too
OrDefault(o, fallback) == IF IsDefined(o) /\ Val(o) # 0 THEN Val(o) ELSE fallback

Message(id, sender, content) == [id |-> id, sender |-> sender, content |-> content]

Step(name, input) == [name |-> name, input |-> input]
Response(status, body) == [status |-> status, body |-> body]
Failure(error) == [success |-> FALSE, error |-> error]
Event(type, rid, data) == [type |-> type, rid |-> rid, data |-> data]

\* The request bodies of POST /api/profile.
FullProfileBody(name, bio, goals, tone) ==
  [ name |-> name, ageRange |-> "25-34", gender |-> "woman", interestedIn |-> "men",
    bio |-> bio, relationshipGoals |-> goals, textingTone |-> tone,
    selfRatedAttractiveness |-> 3 ]

ProfileBodies ==
  { FullProfileBody("Bo", LongBio, "long-term",
                    [positivity |-> 0, playfulness |-> 81, responseLength |-> 100]),
    \* no name
    [ ageRange |-> "25-34", gender |-> "woman", interestedIn |-> "men", bio |-> ShortBio,
      relationshipGoals |-> "casual",
      textingTone |-> [positivity |-> 50, playfulness |-> 50, responseLength |-> 50] ],
    \* no bio, and a textingTone without playfulness and responseLength
    [ name |-> "Cy", ageRange |-> "25-34", gender |-> "man", interestedIn |-> "women",
      relationshipGoals |-> "casual", textingTone |-> [positivity |-> 20] ],
    \* no textingTone
    [ name |-> "Di", ageRange |-> "25-34", gender |-> "woman", interestedIn |-> "men",
      bio |-> ShortBio, relationshipGoals |-> "casual" ] }

\* Lines 45-61 (without createdAt): throws a TypeError when
\* profileData.textingTone is undefined.
BuildProfile(profileData, id) ==
  [ id                      |-> id,
    name                    |-> Get(profileData, "name"),
    ageRange                |-> Get(profileData, "ageRange"),
    gender                  |-> Get(profileData, "gender"),
    interestedIn            |-> Get(profileData, "interestedIn"),
    bio                     |-> Get(profileData, "bio"),
    relationshipGoals       |-> Get(profileData, "relationshipGoals"),
    textingTone             |->
      [ positivity     |-> OrDefault(Get(profileData.textingTone, "positivity"), 50),
        playfulness    |-> OrDefault(Get(profileData.textingTone, "playfulness"), 50),
        responseLength |-> OrDefault(Get(profileData.textingTone, "responseLength"), 50) ],
    selfRatedAttractiveness |-> Get(profileData, "selfRatedAttractiveness"),
    photos                  |-> <<>> ]

\* (the template's emoji is left out)
WelcomeContent(p) ==
  "Hey " \o Str(p.name)
  \o "! I'm your AI dating coach. I'm here to help you understand your dating vibe and give you personalized advice. Let's chat a bit so I can get to know you better! What brings you here today?"

\* Requests waiting at an await, and the ids their continuations will take.
InFlight == Cardinality(chatRequests) + Cardinality(simRequests) + Cardinality(photoRequests)
ReservedIds == Cardinality(chatRequests) + Cardinality(simRequests)
\* n more ids may be handed out without running out of ids.
IdsLeft(n) == nextId - 1 + ReservedIds + n <= MaxId

\* app.post('/api/profile', ...)
PostProfile ==
  \E profileData \in ProfileBodies :
    /\ lastStep' = Step("POST /api/profile", profileData)
    /\ IF "textingTone" \notin DOMAIN profileData
       THEN /\ lastResponse' =
                 Response(500, Failure("Cannot read properties of undefined (reading 'positivity')"))
            /\ UNCHANGED <<storeVars, nextId, events>>
       ELSE LET p == BuildProfile(profileData, nextId)
                welcomeMessage == Message(nextId + 1, "agent", WelcomeContent(p))
            IN  /\ IdsLeft(2)
                /\ profile' = saveProfile(p)
                /\ chatHistory' = addMessage(chatHistory, welcomeMessage)
                /\ nextId' = nextId + 2
                /\ lastResponse' =
                     Response(200, [success |-> TRUE, profile |-> p,
                                    welcomeMessage |-> welcomeMessage])
                /\ events' = Append(events, Event("profile", nextId, Str(p.name)))
                /\ UNCHANGED simulationResults
    /\ UNCHANGED <<chatRequests, simRequests, photoRequests, photoCall, llmCall, tipsCall, runVars, appVars>>

\* app.get('/api/profile', ...)
GetProfile ==
  /\ lastStep' = Step("GET /api/profile", <<>>)
  /\ lastResponse' =
       IF profile = None THEN Response(404, Failure("Profile not found"))
       ELSE Response(200, [success |-> TRUE, profile |-> Val(profile)])
  /\ UNCHANGED <<storeVars, nextId, chatRequests, simRequests, photoRequests, events,
                 photoCall, llmCall, tipsCall, runVars, appVars>>

\* multer's filename for an upload
Filename(id) == "upload-" \o ToString(id)

\* !files || files.length === 0, for a request with n files
NoFilesAccepted(n) == n < 0
NoFilesUploaded(n) == n = 0

\* app.post('/api/photos', upload.array('photos', 3), ...) up to `await analyzePhotos`;
\* the request carries n files that pass the file filter.
PostPhotos ==
  \E n \in 0..MaxUploadFiles :
    /\ lastStep' = Step("POST /api/photos", [files |-> n])
    /\ IF profile = None
       THEN /\ lastResponse' =
                 Response(404, Failure("Profile not found. Please complete onboarding first."))
            /\ UNCHANGED <<profile, nextId, photoRequests, events>>
       ELSE IF NoFilesUploaded(n)
       THEN /\ lastResponse' = Response(400, Failure("No files uploaded"))
            /\ UNCHANGED <<profile, nextId, photoRequests, events>>
       ELSE LET photoPaths == [k \in 1..n |-> Filename(nextId + k - 1)]
            IN  /\ IdsLeft(n)
                /\ InFlight < MaxInFlight
                /\ profile' = updateProfile(profile, [photos |-> photoPaths])
                /\ photoRequests' = photoRequests \cup
                     {[rid |-> nextId, kind |-> "upload", photoPaths |-> photoPaths]}
                /\ nextId' = nextId + n
                /\ events' = Append(events, Event("photos", nextId, ""))
                /\ UNCHANGED lastResponse
    /\ UNCHANGED <<chatHistory, simulationResults, chatRequests, simRequests,
                   photoCall, llmCall, tipsCall, runVars, appVars>>

\* ... and from the end of `await analyzePhotos(photoPaths)` on.
PostPhotosFinish ==
  \E req \in photoRequests, rnd \in PhotoDraws :
    /\ req.kind = "upload"
    /\ photoRequests' = photoRequests \ {req}
    /\ lastStep' = Step("POST /api/photos (response)", [files |-> Len(req.photoPaths)])
    /\ lastResponse' =
         Response(200, [success |-> TRUE, photos |-> req.photoPaths,
                        verification |-> analyzePhotos(req.photoPaths, rnd)])
    /\ UNCHANGED <<storeVars, nextId, chatRequests, simRequests, events, photoCall, llmCall, tipsCall, runVars, appVars>>

\* app.get('/api/photos/verification', ...) up to `await analyzePhotos`
GetPhotosVerification ==
  /\ lastStep' = Step("GET /api/photos/verification", <<>>)
  /\ IF profile = None \/ Len(Val(profile).photos) = 0
     THEN /\ lastResponse' = Response(404, Failure("No photos found"))
          /\ UNCHANGED <<nextId, photoRequests>>
     ELSE /\ IdsLeft(1)
          /\ InFlight < MaxInFlight
          /\ photoRequests' = photoRequests \cup
               {[rid |-> nextId, kind |-> "verify", photoPaths |-> Val(profile).photos]}
          /\ nextId' = nextId + 1
          /\ UNCHANGED lastResponse
  /\ UNCHANGED <<storeVars, chatRequests, simRequests, events, photoCall, llmCall, tipsCall, runVars, appVars>>

\* ... and from the end of `await analyzePhotos(profile.photos)` on.
GetPhotosVerificationFinish ==
  \E req \in photoRequests, rnd \in PhotoDraws :
    /\ req.kind = "verify"
    /\ photoRequests' = photoRequests \ {req}
    /\ lastStep' = Step("GET /api/photos/verification (response)", <<>>)
    /\ lastResponse' =
         Response(200, [success |-> TRUE,
                        verification |-> analyzePhotos(req.photoPaths, rnd)])
    /\ UNCHANGED <<storeVars, nextId, chatRequests, simRequests, events, photoCall, llmCall, tipsCall, runVars, appVars>>

\* app.get('/api/chat/history', ...)
GetChatHistory ==
  /\ lastStep' = Step("GET /api/chat/history", <<>>)
  /\ lastResponse' = Response(200, [success |-> TRUE, messages |-> chatHistory])
  /\ UNCHANGED <<storeVars, nextId, chatRequests, simRequests, photoRequests, events,
                 photoCall, llmCall, tipsCall, runVars, appVars>>

\* A JSON value of a request body: its typeof and its text.
JsString(text) == [type |-> "string", text |-> text]
JsNumber(text) == [type |-> "number", text |-> text]

\* The request bodies of POST /api/chat/message.
ChatBodies ==
  { [content |-> None],
    [content |-> Some(JsString(""))],
    [content |-> Some(JsNumber("7"))],
    [content |-> Some(JsString("hi"))],
    [content |-> Some(JsString("Any TIPS on my Vibe?"))] }

\* !content
Falsy(o) ==
  \/ ~IsDefined(o)
  \/ Val(o).type = "string" /\ Val(o).text = ""
  \/ Val(o).type = "number" /\ Val(o).text = "0"

\* !content || typeof content !== 'string'
ContentRejectedIfFalsy(content) == Falsy(content)
ContentRejected(content) == Falsy(content) \/ Val(content).type # "string"

systemPrompt(p) ==
  "You are an AI dating coach helping " \o Str(p.name)
  \o ". Your role is to:\n- Analyze their texting style and personality\n- Provide constructive, supportive feedback\n- Ask thoughtful questions to understand them better\n- Check in on their dating experiences\n- Offer personalized coaching tips\n\nUser profile:\n- Age: "
  \o Str(p.ageRange) \o "\n- Bio: " \o Str(p.bio)
  \o "\n- Relationship goals: " \o Str(p.relationshipGoals)
  \o "\n- Texting style: " \o ToString(p.textingTone.positivity) \o "% positive, "
  \o ToString(p.textingTone.playfulness)
  \o "% playful\n\nBe friendly, supportive, and conversational. Don't be overly formal."

\* Lines 163-187: the system prompt and the last 10 messages of the transcript.
LLMContext(p, history) ==
  LET recentMessages == SliceLast(history, 10)
  IN  <<[role |-> "system", content |-> systemPrompt(p)]>>
      \o [k \in 1..Len(recentMessages) |->
            [role    |-> IF recentMessages[k].sender = "user" THEN "user" ELSE "assistant",
             content |-> recentMessages[k].content]]

\* app.post('/api/chat/message', ...) up to `await callLLM(messages)`
PostChatMessage ==
  \E body \in ChatBodies :
    /\ lastStep' = Step("POST /api/chat/message", body)
    /\ IF ContentRejected(body.content)
       THEN /\ lastResponse' = Response(400, Failure("Message content is required"))
            /\ UNCHANGED <<chatHistory, nextId, chatRequests, events>>
       ELSE IF profile = None
       THEN /\ lastResponse' = Response(404, Failure("Profile not found"))
            /\ UNCHANGED <<chatHistory, nextId, chatRequests, events>>
       ELSE LET content == Val(body.content).text
                userMessage == Message(nextId, "user", content)
                history == addMessage(chatHistory, userMessage)
            IN  /\ IdsLeft(2)
                /\ InFlight < MaxInFlight
                /\ chatHistory' = history
                /\ chatRequests' = chatRequests \cup
                     {[rid |-> nextId, messages |-> LLMContext(Val(profile), history)]}
                /\ nextId' = nextId + 1
                /\ events' = Append(events, Event("chatStart", nextId, content))
                /\ UNCHANGED lastResponse
    /\ UNCHANGED <<profile, simulationResults, simRequests, photoRequests, photoCall, llmCall, tipsCall, runVars, appVars>>

\* ... and from the end of `await callLLM(messages)` on.
PostChatMessageFinish ==
  \E req \in chatRequests, outcome \in LLMOutcomes :
    /\ chatRequests' = chatRequests \ {req}
    /\ lastStep' = Step("POST /api/chat/message (response)", <<>>)
    /\ IF callLLMThrows(req.messages, outcome)
       THEN /\ lastResponse' =
                 Response(500, Failure("Cannot read properties of undefined (reading 'content')"))
            /\ events' = Append(events, Event("chatFail", req.rid, ""))
            /\ UNCHANGED <<chatHistory, nextId>>
       ELSE LET aiResponse == callLLM(req.messages, outcome)
                aiMessage == Message(nextId, "agent", aiResponse)
            IN  /\ chatHistory' = addMessage(chatHistory, aiMessage)
                /\ nextId' = nextId + 1
                /\ lastResponse' = Response(200, [success |-> TRUE, message |-> aiMessage])
                /\ events' = Append(events, Event("chatEnd", req.rid, aiResponse))
    /\ UNCHANGED <<profile, simulationResults, simRequests, photoRequests, photoCall, llmCall, tipsCall,
                   runVars, appVars>>

StartContent ==
  "Great! I'm going to run 50 simulated dating scenarios based on your profile and our conversations. This will take about 30 seconds. I'll analyze how you might interact with different personality types and give you personalized insights!"

\* items.map((x, i) => `${i + 1}. ${x}`)
Numbered(list) == [k \in 1..Len(list) |-> ToString(k) \o ". " \o list[k]]
Prefixed(list, before, after) == [k \in 1..Len(list) |-> before \o list[k] \o after]

\* (the template's emoji and bullet glyphs are written in ASCII)
buildSimulationSummaryMessage(results) ==
  "Simulations complete! Here's what I learned:\n\n**Your Overall Vibe:**\n"
  \o results.vibe_analysis.overall_impression
  \o "\n\n**Your Strengths:**\n"
  \o Join(Prefixed(results.vibe_analysis.strengths, "+ ", ""), "\n")
  \o "\n\n**Top Compatible Archetypes:**\n"
  \o Join(Numbered(Slice0(results.top_archetypes, 3)), "\n")
  \o "\n\n**Coaching Tips:**\n"
  \o Join(Numbered(Slice0(results.coaching_tips, 3)), "\n")
  \o "\n\n**Suggested Openers:**\n"
  \o Join(Prefixed(Slice0(results.suggested_openers, 2), "- \"", "\""), "\n")
  \o "\n\n"
  \o (IF Len(results.vibe_analysis.areas_to_improve) > 0
      THEN "\n**Areas to Work On:**\n"
           \o Join(Prefixed(results.vibe_analysis.areas_to_improve, "> ", ""), "\n")
      ELSE "")
  \o "\n\nYour average compatibility score was "
  \o ToString(results.average_compatibility)
  \o "/100! Want to dive deeper into any of these insights?"

\* app.post('/api/simulations/run', ...) up to the first await of runSimulations
\* (analyzeVibe's callLLM).
PostSimulationsRun ==
  /\ lastStep' = Step("POST /api/simulations/run", <<>>)
  /\ IF profile = None
     THEN /\ lastResponse' = Response(404, Failure("Profile not found"))
          /\ UNCHANGED <<chatHistory, nextId, simRequests, events>>
     ELSE LET startMessage == Message(nextId, "agent", StartContent)
          IN  /\ IdsLeft(2)
              /\ InFlight < MaxInFlight
              /\ chatHistory' = addMessage(chatHistory, startMessage)
              /\ simRequests' = simRequests \cup
                   {[rid |-> nextId, profile |-> Val(profile),
                     chatHistory |-> addMessage(chatHistory, startMessage)]}
              /\ nextId' = nextId + 1
              /\ events' = Append(events, Event("simStart", nextId, ""))
              /\ UNCHANGED lastResponse
  /\ UNCHANGED <<profile, simulationResults, chatRequests, photoRequests, photoCall, llmCall, tipsCall, runVars, appVars>>

\* ... and the rest of the handler: the 50 scenarios and the aggregation run
\* without a real wait, so nothing comes between them; stream is what
\* Math.random() gives this run.
PostSimulationsRunFinish ==
  \E req \in simRequests, stream \in ServerStreams :
    /\ simRequests' = simRequests \ {req}
    /\ lastStep' = Step("POST /api/simulations/run (response)", <<>>)
    /\ IF analyzeSimulationsThrows(req.profile)
       THEN /\ lastResponse' =
                 Response(500, Failure("Cannot read properties of undefined"))
            /\ events' = Append(events, Event("simFail", req.rid, ""))
            /\ UNCHANGED <<chatHistory, simulationResults, nextId>>
       ELSE LET results == runSimulations(req.profile, req.chatHistory, stream)
                completionMessage ==
                  Message(nextId, "agent", buildSimulationSummaryMessage(results))
            IN  /\ simulationResults' = saveSimulationResults(results)
                /\ chatHistory' = addMessage(chatHistory, completionMessage)
                /\ nextId' = nextId + 1
                /\ lastResponse' =
                     Response(200, [success |-> TRUE, results |-> results,
                                    message |-> completionMessage])
                /\ events' = Append(events, Event("simEnd", req.rid,
                                                   ToString(results.average_compatibility)))
    /\ UNCHANGED <<profile, chatRequests, photoRequests, photoCall, llmCall, tipsCall, runVars, appVars>>

\* app.get('/api/simulations/results', ...)
GetSimulationsResults ==
  /\ lastStep' = Step("GET /api/simulations/results", <<>>)
  /\ lastResponse' =
       IF simulationResults = None
       THEN Response(404, Failure("No simulation results found"))
       ELSE Response(200, [success |-> TRUE, results |-> Val(simulationResults)])
  /\ UNCHANGED <<storeVars, nextId, chatRequests, simRequests, photoRequests, events,
                 photoCall, llmCall, tipsCall, runVars, appVars>>

\* app.get('/api/health', ...)
GetHealth ==
  /\ lastStep' = Step("GET /api/health", <<>>)
  /\ lastResponse' = Response(200, [status |-> "ok"])
  /\ UNCHANGED <<storeVars, nextId, chatRequests, simRequests, photoRequests, events,
                 photoCall, llmCall, tipsCall, runVars, appVars>>

\* The simulation variables are not used by the server specifications.
RunIdle ==
  /\ simPc = "idle"
  /\ simProfile = None
  /\ simStream = NoStream
  /\ simIndex = 0
  /\ simulations = <<>>
  /\ summary = None

Init == StoreInit /\ ServerInit /\ RunIdle

Next ==
  \/ PostProfile
  \/ GetProfile
  \/ PostPhotos
  \/ PostPhotosFinish
  \/ GetPhotosVerification
  \/ GetPhotosVerificationFinish
  \/ GetChatHistory
  \/ PostChatMessage
  \/ PostChatMessageFinish
  \/ PostSimulationsRun
  \/ PostSimulationsRunFinish
  \/ GetSimulationsResults
  \/ GetHealth

Spec == Init /\ [][Next]_vars

(***************************************************************************)
(* SpecAnalyze: analyzePhotos called directly, on any list of up to        *)
(* MaxPhotoPaths filenames and with any draw of Math.random().             *)
(***************************************************************************)
AnalyzeInit ==
  /\ StoreInit
  /\ RunIdle
  /\ nextId = 1
  /\ chatRequests = {}
  /\ simRequests = {}
  /\ photoRequests = {}
  /\ lastStep = Step("none", <<>>)
  /\ lastResponse = Response(0, [success |-> FALSE])
  /\ events = <<>>
  /\ \E n \in 0..MaxPhotoPaths, rnd \in 0..(RandomDenominator - 1) :
       photoCall = Some([photoPaths |-> [k \in 1..n |-> Filename(k)], rnd |-> rnd,
                         result |-> None])
  /\ llmCall = None
  /\ tipsCall = None
  /\ AppIdle

\* await analyzePhotos(photoPaths)
AnalyzePhotosCall ==
  /\ IsDefined(photoCall)
  /\ Val(photoCall).result = None
  /\ photoCall' = Some([Val(photoCall) EXCEPT
                          !.result = Some(analyzePhotos(Val(photoCall).photoPaths,
                                                        Val(photoCall).rnd))])
  /\ UNCHANGED <<storeVars, nextId, chatRequests, simRequests, photoRequests,
                 lastStep, lastResponse, events, llmCall, tipsCall, runVars, appVars>>

AnalyzeNext == AnalyzePhotosCall

SpecAnalyze == AnalyzeInit /\ [][AnalyzeNext]_vars

(***************************************************************************)
(* SpecLongChat: the server from the state it is in after one onboarding   *)
(* and up to MaxPastChats chat calls made one after the other, so that the *)
(* transcript grows past the 10 entries the chat handler looks back.       *)
(***************************************************************************)
\* The transcript after the onboarding and n chat calls: the welcome message,
\* then n pairs of a user message and its reply.  The ids handed out so far
\* are the 2n + 2 numbers below FirstFreeId.
FirstFreeId == 3
PastId(n, j) == FirstFreeId - (2 * n + 2) + j
PastProfile(n) ==
  BuildProfile(FullProfileBody("Bo", LongBio, "long-term",
                               [positivity |-> 70, playfulness |-> 81, responseLength |-> 100]),
               PastId(n, 0))
PastTranscript(n) ==
  [j \in 1..(2 * n + 1) |->
     IF j = 1 THEN Message(PastId(n, 1), "agent", WelcomeContent(PastProfile(n)))
     ELSE IF j % 2 = 0 THEN Message(PastId(n, j), "user", "note " \o ToString(j \div 2))
     ELSE Message(PastId(n, j), "agent", "reply " \o ToString(j \div 2))]
PastEvents(n) ==
  [j \in 1..(2 * n + 1) |->
     IF j = 1 THEN Event("profile", PastId(n, 0), "Bo")
     ELSE IF j % 2 = 0 THEN Event("chatStart", PastId(n, j), "note " \o ToString(j \div 2))
     ELSE Event("chatEnd", PastId(n, j - 1), "reply " \o ToString(j \div 2))]

LongChatInit ==
  /\ RunIdle
  /\ \E n \in 0..MaxPastChats :
       /\ profile = Some(PastProfile(n))
       /\ chatHistory = PastTranscript(n)
       /\ events = PastEvents(n)
  /\ simulationResults = None
  /\ nextId = FirstFreeId
  /\ chatRequests = {}
  /\ simRequests = {}
  /\ photoRequests = {}
  /\ lastStep = Step("none", <<>>)
  /\ lastResponse = Response(0, [success |-> FALSE])
  /\ photoCall = None
  /\ llmCall = None
  /\ tipsCall = None
  /\ AppIdle

LongChatNext ==
  \/ PostProfile
  \/ PostChatMessage
  \/ PostChatMessageFinish
  \/ PostSimulationsRun
  \/ PostSimulationsRunFinish

SpecLongChat == LongChatInit /\ [][LongChatNext]_vars

(***************************************************************************)
(* SpecTips: direct calls of generateCoachingTips.                         *)
(***************************************************************************)
\* Tones on both sides of every threshold the tip rules test.
TipProfiles ==
  { StoredProfile("Ana", LongBio, "casual", positivity, playfulness, responseLength) :
      positivity \in {49, 50}, playfulness \in {39, 40, 80, 81},
      responseLength \in {29, 30, 80, 81} }
\* Lists of common issues: none, one, and three of the generator's issues.
TipIssueLists ==
  { <<>>, <<Val(issues[1])>>, <<Val(issues[2])>>, <<Val(issues[3]), Val(issues[4])>>,
    <<Val(issues[1]), Val(issues[2]), Val(issues[3])>>,
    <<Val(issues[2]), Val(issues[3]), Val(issues[4])>> }
\* Averages on both sides of the two band limits.
TipAverages == {59, 60, 74, 75}

TipsInit ==
  /\ StoreInit
  /\ RunIdle
  /\ nextId = 1
  /\ chatRequests = {}
  /\ simRequests = {}
  /\ photoRequests = {}
  /\ lastStep = Step("none", <<>>)
  /\ lastResponse = Response(0, [success |-> FALSE])
  /\ events = <<>>
  /\ photoCall = None
  /\ llmCall = None
  /\ \E p \in TipProfiles, common \in TipIssueLists, average \in TipAverages :
       tipsCall = Some([profile |-> p, commonIssues |-> common,
                        avgCompatibility |-> average, result |-> None])
  /\ AppIdle

\* generateCoachingTips(profile, vibeAnalysis, commonIssues, avgCompatibility)
GenerateCoachingTipsCall ==
  /\ IsDefined(tipsCall)
  /\ Val(tipsCall).result = None
  /\ tipsCall' = Some([Val(tipsCall) EXCEPT
                         !.result = Some(generateCoachingTips(Val(tipsCall).profile,
                                                              vibeAnalysisResult,
                                                              Val(tipsCall).commonIssues,
                                                              Val(tipsCall).avgCompatibility))])
  /\ UNCHANGED <<storeVars, nextId, chatRequests, simRequests, photoRequests,
                 lastStep, lastResponse, events, photoCall, llmCall, runVars, appVars>>

TipsNext == GenerateCoachingTipsCall

SpecTips == TipsInit /\ [][TipsNext]_vars

(***************************************************************************)
(* SpecApp: the frontend.  App shows a loading screen until its profile    *)
(* check is over, then the component of the current step; the server's     *)
(* answers are inputs.                                                     *)
(***************************************************************************)
MinBioLength == 20
MaxSelectedFiles == 3

\* Onboarding: useState of formData, loading and error.
InitialFormData ==
  [ name                    |-> "",
    ageRange                |-> "25-34",
    gender                  |-> "",
    interestedIn            |-> "",
    bio                     |-> "",
    relationshipGoals       |-> "unsure",
    textingTone             |-> [positivity |-> 50, playfulness |-> 50, responseLength |-> 50],
    selfRatedAttractiveness |-> 3 ]
OnboardingScreen ==
  [ component |-> "Onboarding", formData |-> InitialFormData, loading |-> FALSE, error |-> "" ]
\* PhotoUpload: useState of selectedFiles (their number here), uploading,
\* verification and error.
PhotoUploadScreen ==
  [ component |-> "PhotoUpload", selectedFiles |-> 0, uploading |-> FALSE,
    verification |-> None, error |-> "" ]
ChatScreen == [component |-> "Chat"]

\* What App renders once loading is false.
Render(step) ==
  IF step = "onboarding" THEN OnboardingScreen
  ELSE IF step = "photos" THEN PhotoUploadScreen
  ELSE ChatScreen

\* The arguments of setCurrentStep in App's three callbacks.
handleOnboardingComplete == "photos"
handlePhotosComplete == "chat"
handlePhotosSkipToOnboarding == "onboarding"
handlePhotosSkip == "chat"

AppInit ==
  /\ StoreInit
  /\ ServerInit
  /\ RunIdle

\* useEffect(() => { checkExistingProfile() }, []) up to `await profileAPI.get()`
CheckExistingProfile ==
  /\ appCheck = "idle"
  /\ appCheck' = "pending"
  /\ UNCHANGED <<currentStep, loading, screen, storeVars, serverVars, runVars>>

\* The answers to GET /api/profile: the stored profile, 404, no answer at all.
ProfileCheckAnswers == {"found", "not found", "network error"}

\* ... and from the end of `await profileAPI.get()` on.
CheckExistingProfileFinish ==
  /\ appCheck = "pending"
  /\ \E answer \in ProfileCheckAnswers :
       /\ currentStep' = IF answer = "found" THEN "chat" ELSE currentStep
       /\ loading' = FALSE
       /\ appCheck' = "done"
       /\ screen' = Render(currentStep')
  /\ UNCHANGED <<storeVars, serverVars, runVars>>

\* The fields the user edits and the values typed or chosen.
FormEdits ==
  { [field |-> "name", value |-> "Bo"],
    [field |-> "gender", value |-> "woman"],
    [field |-> "interestedIn", value |-> "men"],
    [field |-> "bio", value |-> ShortBio],
    [field |-> "bio", value |-> LongBio] }

\* handleInputChange: setFormData(prev => ({ ...prev, [name]: value }))
HandleInputChange ==
  /\ screen.component = "Onboarding"
  /\ \E edit \in FormEdits :
       screen' = [screen EXCEPT !.formData =
                    [f \in DOMAIN screen.formData |->
                       IF f = edit.field THEN edit.value ELSE screen.formData[f]]]
  /\ UNCHANGED <<currentStep, loading, appCheck, storeVars, serverVars, runVars>>

\* The sliders the user moves (each from 0 to 100) and where to.
SliderEdits == { [field |-> "positivity", value |-> 0], [field |-> "playfulness", value |-> 100] }

\* handleSliderChange: setFormData(prev => ({ ...prev, textingTone: { ...prev.textingTone, [field]: value } }))
HandleSliderChange ==
  /\ screen.component = "Onboarding"
  /\ \E edit \in SliderEdits :
       screen' = [screen EXCEPT !.formData.textingTone =
                    [f \in DOMAIN screen.formData.textingTone |->
                       IF f = edit.field THEN edit.value ELSE screen.formData.textingTone[f]]]
  /\ UNCHANGED <<currentStep, loading, appCheck, storeVars, serverVars, runVars>>

\* handleSubmit up to `await profileAPI.create(formData)`; the submit button
\* is disabled while loading.
HandleSubmit ==
  /\ screen.component = "Onboarding"
  /\ ~screen.loading
  /\ LET formData == screen.formData
     IN  screen' =
           IF formData.name = "" \/ formData.gender = "" \/ formData.interestedIn = ""
              \/ formData.bio = ""
           THEN [screen EXCEPT !.error = "Please fill in all required fields"]
           ELSE IF Len(formData.bio) < MinBioLength
           THEN [screen EXCEPT !.error = "Bio should be at least 20 characters"]
           ELSE [screen EXCEPT !.error = "", !.loading = TRUE]
  /\ UNCHANGED <<currentStep, loading, appCheck, storeVars, serverVars, runVars>>

\* The answers to a POST: success, an error answer with a message, no answer.
PostAnswers == {"ok", "error", "network error"}

\* ... and from the end of `await profileAPI.create(formData)` on.
HandleSubmitFinish ==
  /\ screen.component = "Onboarding"
  /\ screen.loading
  /\ \E answer \in PostAnswers :
       IF answer = "ok"
       THEN /\ currentStep' = handleOnboardingComplete
            /\ screen' = Render(currentStep')
       ELSE /\ screen' = [screen EXCEPT
                            !.error = IF answer = "error" THEN "Internal server error"
                                      ELSE "Failed to create profile",
                            !.loading = FALSE]
            /\ UNCHANGED currentStep
  /\ UNCHANGED <<loading, appCheck, storeVars, serverVars, runVars>>

\* handleFileChange: the first 3 of the chosen files; clears the verification.
HandleFileChange ==
  /\ screen.component = "PhotoUpload"
  /\ \E chosen \in 0..(MaxSelectedFiles + 1) :
       screen' = [screen EXCEPT
                    !.selectedFiles = IF chosen > MaxSelectedFiles THEN MaxSelectedFiles
                                      ELSE chosen,
                    !.verification = None,
                    !.error = ""]
  /\ UNCHANGED <<currentStep, loading, appCheck, storeVars, serverVars, runVars>>

\* handleUpload up to `await photoAPI.upload(fileList)`; its button is shown
\* when files are selected and no verification is, and disabled while uploading.
HandleUpload ==
  /\ screen.component = "PhotoUpload"
  /\ screen.selectedFiles > 0
  /\ screen.verification = None
  /\ ~screen.uploading
  /\ screen' = IF screen.selectedFiles = 0
               THEN [screen EXCEPT !.error = "Please select at least one photo"]
               ELSE [screen EXCEPT !.uploading = TRUE, !.error = ""]
  /\ UNCHANGED <<currentStep, loading, appCheck, storeVars, serverVars, runVars>>

\* ... and from the end of `await photoAPI.upload(fileList)` on.
HandleUploadFinish ==
  /\ screen.component = "PhotoUpload"
  /\ screen.uploading
  /\ \E answer \in PostAnswers, status \in {"success", "inconclusive"} :
       screen' = IF answer = "ok"
                 THEN [screen EXCEPT !.verification = Some(status), !.uploading = FALSE]
                 ELSE [screen EXCEPT
                         !.error = IF answer = "error" THEN "No photos uploaded"
                                   ELSE "Failed to upload photos",
                         !.uploading = FALSE]
  /\ UNCHANGED <<currentStep, loading, appCheck, storeVars, serverVars, runVars>>

\* handleContinue: onComplete(); its button is shown with a verification.
HandleContinue ==
  /\ screen.component = "PhotoUpload"
  /\ IsDefined(screen.verification)
  /\ currentStep' = handlePhotosComplete
  /\ screen' = Render(currentStep')
  /\ UNCHANGED <<loading, appCheck, storeVars, serverVars, runVars>>

\* onSkip: the skip button is always shown on the photo step.
HandleSkip ==
  /\ screen.component = "PhotoUpload"
  /\ currentStep' = handlePhotosSkip
  /\ screen' = Render(currentStep')
  /\ UNCHANGED <<loading, appCheck, storeVars, serverVars, runVars>>

AppNext ==
  \/ CheckExistingProfile
  \/ CheckExistingProfileFinish
  \/ HandleInputChange
  \/ HandleSliderChange
  \/ HandleSubmit
  \/ HandleSubmitFinish
  \/ HandleFileChange
  \/ HandleUpload
  \/ HandleUploadFinish
  \/ HandleContinue
  \/ HandleSkip

SpecApp == AppInit /\ [][AppNext]_vars

\* The profile check starts when App mounts and its request is answered or fails.
SpecAppFair ==
  SpecApp /\ WF_vars(CheckExistingProfile) /\ WF_vars(CheckExistingProfileFinish)

(***************************************************************************)
(* SpecLLM: callLLM called directly, on contexts whose last message holds  *)
(* any choice of the words the catch block looks for.                      *)
(***************************************************************************)
\* The words of the fallback rules, in the order of the rules, as a user may
\* type them.
Keywords == <<"analyze", "vibe", "simulation", "scenario", "coaching", "tips",
              "check in", "feeling">>
KeywordsTyped == <<"ANALYZE", "Vibe", "simulatioN", "SCENARIO", "Coaching", "TIPS",
                   "Check In", "FEELING">>

\* A message that holds the words numbered in chosen and none of the others.
RECURSIVE MessageFrom(_, _, _)
MessageFrom(words, chosen, k) ==
  IF k > Len(words) THEN "please"
  ELSE IF k \in chosen THEN words[k] \o " " \o MessageFrom(words, chosen, k + 1)
  ELSE MessageFrom(words, chosen, k + 1)
RECURSIVE MessageFromReversed(_, _, _)
MessageFromReversed(words, chosen, k) ==
  IF k > Len(words) THEN "so"
  ELSE IF k \in chosen THEN MessageFromReversed(words, chosen, k + 1) \o " " \o words[k]
  ELSE MessageFromReversed(words, chosen, k + 1)

LLMInit ==
  /\ StoreInit
  /\ RunIdle
  /\ nextId = 1
  /\ chatRequests = {}
  /\ simRequests = {}
  /\ photoRequests = {}
  /\ lastStep = Step("none", <<>>)
  /\ lastResponse = Response(0, [success |-> FALSE])
  /\ events = <<>>
  /\ photoCall = None
  /\ \E chosen \in SUBSET (1..Len(Keywords)), words \in {Keywords, KeywordsTyped},
        reversed \in BOOLEAN, outcome \in LLMOutcomes :
       llmCall = Some([chosen   |-> chosen,
                       messages |->
                         << [role |-> "system", content |-> "You are an AI dating coach."],
                            [role |-> "user",
                             content |-> IF reversed THEN MessageFromReversed(words, chosen, 1)
                                         ELSE MessageFrom(words, chosen, 1)] >>,
                       outcome  |-> outcome,
                       result   |-> None])
  /\ tipsCall = None
  /\ AppIdle

\* await callLLM(messages)
CallLLMCall ==
  /\ IsDefined(llmCall)
  /\ Val(llmCall).result = None
  /\ ~callLLMThrows(Val(llmCall).messages, Val(llmCall).outcome)
  /\ llmCall' = Some([Val(llmCall) EXCEPT
                        !.result = Some(callLLM(Val(llmCall).messages, Val(llmCall).outcome))])
  /\ UNCHANGED <<storeVars, nextId, chatRequests, simRequests, photoRequests,
                 lastStep, lastResponse, events, photoCall, tipsCall, runVars, appVars>>

LLMNext == CallLLMCall

SpecLLM == LLMInit /\ [][LLMNext]_vars

(***************************************************************************)
(* Claims about the generator and the aggregator.                          *)
(***************************************************************************)
Scores(sims) == [k \in 1..Len(sims) |-> sims[k].compatibility_score]
TheSummary == Val(summary)

\* The records of the batch with archetype a: how many, and their scores' sum.
ArchetypeCount(a) == Cardinality({k \in 1..Len(simulations) : simulations[k].match_archetype = a})
ArchetypeTotal(a) ==
  Sum([k \in 1..Len(simulations) |->
         IF simulations[k].match_archetype = a THEN simulations[k].compatibility_score ELSE 0])
BatchArchetypes == {simulations[k].match_archetype : k \in 1..Len(simulations)}
\* mean(a) >= mean(b)
MeanAtLeast(a, b) ==
  ArchetypeTotal(a) * ArchetypeCount(b) >= ArchetypeTotal(b) * ArchetypeCount(a)

\* The issue strings of the batch, and in how many records each occurs.
BatchIssues ==
  {Val(simulations[k].potential_issue) :
     k \in {j \in 1..Len(simulations) : IsDefined(simulations[j].potential_issue)}}
IssueCount(issue) ==
  Cardinality({k \in 1..Len(simulations) : simulations[k].potential_issue = Some(issue)})

NoDuplicates(list) == \A i, j \in 1..Len(list) : i # j => list[i] # list[j]

\* C1: every compatibility_score of a run's batch is an integer in [60, 94];
\* the returned average_compatibility is the mean of the 50 scores rounded to
\* the nearest integer, a half rounding up (mean - 1/2 < average <= mean + 1/2,
\* written without fractions), and lies in [60, 95).
C1_AverageIsRoundedMean ==
  /\ \A k \in 1..Len(simulations) : simulations[k].compatibility_score \in 60..94
  /\ simPc = "done" =>
       LET n       == Len(simulations)
           total   == Sum(Scores(simulations))
           average == TheSummary.average_compatibility
       IN  /\ n = 50
           /\ 2 * n * average - n <= 2 * total
           /\ 2 * total < 2 * n * average + n
           /\ 60 <= average /\ average < 95

\* A finished run whose mean is exactly a half below the average it reports,
\* with both the lowest and the highest score in the batch.
C1_Witness ==
  /\ simPc = "done"
  /\ 2 * Sum(Scores(simulations)) = 2 * 50 * TheSummary.average_compatibility - 50
  /\ \E k \in 1..Len(simulations) : simulations[k].compatibility_score = 60

\* C2: top_archetypes has no label twice, has min(5, number of distinct
\* archetypes of the batch) entries, is in non-increasing order of the
\* archetypes' mean scores, and no archetype left out has a higher mean than
\* one that is listed.
C2_TopArchetypes ==
  simPc = "done" =>
    LET top == TheSummary.top_archetypes
        d   == Cardinality(BatchArchetypes)
    IN  /\ NoDuplicates(top)
        /\ Range(top) \subseteq BatchArchetypes
        /\ Len(top) = IF d < 5 THEN d ELSE 5
        /\ \A i, j \in 1..Len(top) : i < j => MeanAtLeast(top[i], top[j])
        /\ \A a \in Range(top) : \A b \in BatchArchetypes \ Range(top) : MeanAtLeast(a, b)

\* A batch of six archetypes, one of them left out, whose best archetype is
\* not the first one generated and whose means are not all equal.
C2_Witness ==
  /\ simPc = "done"
  /\ Cardinality(BatchArchetypes) = 6
  /\ Len(TheSummary.top_archetypes) = 5
  /\ TheSummary.top_archetypes[1] # simulations[1].match_archetype
  /\ ~MeanAtLeast(TheSummary.top_archetypes[5], TheSummary.top_archetypes[1])

\* C3: common_issues holds at most 3 issue strings, no string twice, each the
\* issue of at least one record (so never the null "no issue" slot), and no
\* issue left out occurs in more records than one that is listed.
C3_CommonIssues ==
  simPc = "done" =>
    LET common == TheSummary.common_issues
    IN  /\ Len(common) <= 3
        /\ NoDuplicates(common)
        /\ Range(common) \subseteq BatchIssues
        /\ \A a \in Range(common) : \A b \in BatchIssues \ Range(common) :
             IssueCount(b) <= IssueCount(a)

\* A batch with all four issues and a record without issue, where the most
\* frequent issue is not the first one met and one issue is left out.
C3_Witness ==
  /\ simPc = "done"
  /\ Cardinality(BatchIssues) = 4
  /\ \E k \in 1..Len(simulations) : ~IsDefined(simulations[k].potential_issue)
  /\ Len(TheSummary.common_issues) = 3
  /\ IsDefined(simulations[1].potential_issue)
  /\ TheSummary.common_issues[1] # Val(simulations[1].potential_issue)

\* C4: coaching_tips has at most 5 entries; areas_to_improve has at most 4
\* entries and no string twice.
C4_TipsAndImprovements ==
  simPc = "done" =>
    /\ Len(TheSummary.coaching_tips) <= 5
    /\ Len(TheSummary.vibe_analysis.areas_to_improve) <= 4
    /\ NoDuplicates(TheSummary.vibe_analysis.areas_to_improve)

\* A summary for which all six tip rules fire (five tips are kept), with three
\* improvements.
C4_Witness ==
  /\ simPc = "done"
  /\ simProfile.textingTone.positivity < 50
  /\ simProfile.textingTone.playfulness < 40
  /\ simProfile.textingTone.responseLength < 30
  /\ SomeIncludes(TheSummary.common_issues, "question")
  /\ SomeIncludes(TheSummary.common_issues, "eager")
  /\ Len(TheSummary.coaching_tips) = 5
  /\ Len(TheSummary.vibe_analysis.areas_to_improve) = 3

(***************************************************************************)
(* Claims about the server.                                                *)
(***************************************************************************)
\* The handler the last step ran, and what it answered.
Ran(step, name) == step.name = name

\* The profile and chat calls made so far, in order (photo uploads left out).
IsProfileOrChat(e) == e.type # "photos"
CallEvents == SelectSeq(events, IsProfileOrChat)
ChatCalls == (Len(CallEvents) - 1) \div 2

\* One POST /api/profile, then only chat calls with valid content, each
\* answered before the next one starts, and no simulation run.
SequentialChats ==
  /\ Len(CallEvents) % 2 = 1
  /\ CallEvents[1].type = "profile"
  /\ \A k \in 1..ChatCalls :
       /\ CallEvents[2 * k].type = "chatStart"
       /\ CallEvents[2 * k + 1].type = "chatEnd"
       /\ CallEvents[2 * k + 1].rid = CallEvents[2 * k].rid

\* C5: after one POST /api/profile and then N POST /api/chat/message calls
\* with valid content, each completed before the next starts and with no
\* simulation run, the transcript has 1 + 2N entries: the welcome message,
\* then, in call order, each call's user message immediately followed by the
\* agent reply of that call.
C5_TranscriptOfSequentialChats ==
  SequentialChats =>
    /\ Len(chatHistory) = 1 + 2 * ChatCalls
    /\ chatHistory[1].sender = "agent"
    /\ chatHistory[1].id = CallEvents[1].rid + 1
    /\ chatHistory[1].content = WelcomeContent([name |-> Some(CallEvents[1].data)])
    /\ \A k \in 1..ChatCalls :
         /\ chatHistory[2 * k].sender = "user"
         /\ chatHistory[2 * k].id = CallEvents[2 * k].rid
         /\ chatHistory[2 * k].content = CallEvents[2 * k].data
         /\ chatHistory[2 * k + 1].sender = "agent"
         /\ chatHistory[2 * k + 1].content = CallEvents[2 * k + 1].data

\* Two chat calls one after the other, with different messages and replies.
C5_Witness ==
  /\ SequentialChats
  /\ ChatCalls = 2
  /\ CallEvents[2].data # CallEvents[4].data
  /\ CallEvents[3].data # CallEvents[5].data

ProfileFields ==
  {"name", "ageRange", "gender", "interestedIn", "bio", "relationshipGoals",
   "selfRatedAttractiveness"}

\* C6: a GET /api/profile that comes right after a successful POST
\* /api/profile returns exactly the profile the POST returned; a successful
\* POST /api/profile leaves the returned profile as the only one stored: when
\* a profile was stored before, the new one has another id, an empty photo
\* list, and every field as the new request gave it (undefined when it gave
\* none), whatever the old profile held.
C6_SingleProfileSlot ==
  [][ /\ ( /\ Ran(lastStep, "POST /api/profile") /\ lastResponse.status = 200
           /\ Ran(lastStep', "GET /api/profile") )
         => /\ lastResponse'.status = 200
            /\ lastResponse'.body.profile = lastResponse.body.profile
      /\ ( Ran(lastStep', "POST /api/profile") /\ lastResponse'.status = 200 )
         => LET returned == lastResponse'.body.profile
            IN  /\ profile' = Some(returned)
                /\ returned.photos = <<>>
                /\ \A f \in ProfileFields : returned[f] = Get(lastStep'.input, f)
                /\ profile # None => returned.id # Val(profile).id
    ]_vars

\* GET /api/profile right after the second POST /api/profile, the first
\* profile having had photos uploaded and another name.
C6_Witness ==
  /\ Ran(lastStep, "GET /api/profile")
  /\ lastResponse.status = 200
  /\ Len(events) = 3
  /\ events[1].type = "profile" /\ events[2].type = "photos" /\ events[3].type = "profile"
  /\ events[1].data # events[3].data
  /\ lastResponse.body.profile.id = events[3].rid
  /\ photoRequests = {}

\* A POST /api/photos without a file, made while a profile is stored.
PhotosPostWithoutFile ==
  /\ Ran(lastStep', "POST /api/photos")
  /\ lastStep'.input.files = 0
  /\ profile # None

\* C7 as stated: a POST /api/photos that carries no file, made while a profile
\* is stored, is answered with a verification of status failed, confidence 0.
C7_NoFileAnsweredWithFailedVerification ==
  [][ PhotosPostWithoutFile =>
        /\ "verification" \in DOMAIN lastResponse'.body
        /\ lastResponse'.body.verification.status = "failed"
        /\ lastResponse'.body.verification.confidence = 0
    ]_vars

\* C7, as the code has it: analyzePhotos returns status failed and confidence
\* 0 for an empty list of filenames, but a POST /api/photos that carries no
\* file, made while a profile is stored, never gets that far: it is answered
\* with HTTP 400 "No files uploaded", without a verification, and leaves the
\* stored photo list and everything else in the store as it was.
C7_NoFileRejected ==
  [][ /\ \A rnd \in PhotoDraws :
           /\ analyzePhotos(<<>>, rnd).status = "failed"
           /\ analyzePhotos(<<>>, rnd).confidence = 0
      /\ PhotosPostWithoutFile =>
           /\ lastResponse' = Response(400, Failure("No files uploaded"))
           /\ UNCHANGED <<storeVars, photoRequests, nextId>>
    ]_vars

\* A POST /api/photos without a file has been answered while a profile with
\* photos is stored.
C7_Witness ==
  /\ Ran(lastStep, "POST /api/photos")
  /\ lastStep.input.files = 0
  /\ lastResponse.status = 400
  /\ profile # None
  /\ Len(Val(profile).photos) > 0

TheCall == Val(photoCall)
TheResult == Val(TheCall.result)
Called == IsDefined(photoCall) /\ IsDefined(TheCall.result)

\* C8: analyzePhotos on exactly 1 filename returns status success with
\* confidence exactly 75; on 2 or more filenames it returns an integer
\* confidence c with 80 <= c < 95, and the status is success iff c >= 85,
\* inconclusive iff 70 <= c < 85, failed iff c < 70.
C8_AnalyzePhotos ==
  Called =>
    LET n == Len(TheCall.photoPaths)
        c == TheResult.confidence
    IN  /\ n = 1 => TheResult.status = "success" /\ c = 75
        /\ n >= 2 =>
             /\ c \in Int /\ 80 <= c /\ c < 95
             /\ TheResult.status = "success" <=> c >= 85
             /\ TheResult.status = "inconclusive" <=> (70 <= c /\ c < 85)
             /\ TheResult.status = "failed" <=> c < 70

\* A call with three filenames that came out at the threshold, 85.
C8_Witness ==
  /\ Called
  /\ Len(TheCall.photoPaths) = 3
  /\ TheResult.confidence = 85
  /\ TheResult.status = "success"

\* A body of POST /api/profile without one of the fields a profile must have.
RequiredProfileFields ==
  {"name", "ageRange", "gender", "interestedIn", "bio", "relationshipGoals", "textingTone"}
MissingRequiredField(body) == \E f \in RequiredProfileFields : f \notin DOMAIN body

\* C9 as stated: POST /api/profile with a required profile field missing is
\* answered with HTTP 400 and leaves the store unchanged.
C9_MissingFieldRejected ==
  [][ ( Ran(lastStep', "POST /api/profile") /\ MissingRequiredField(lastStep'.input) )
      => /\ lastResponse'.status = 400
         /\ UNCHANGED storeVars
    ]_vars

\* A content that is missing, empty, or not a string.
InvalidContent(content) ==
  \/ content = None
  \/ content = Some(JsString(""))
  \/ IsDefined(content) /\ Val(content).type # "string"

\* C10: POST /api/chat/message whose content is missing, empty, or not a
\* string is answered with HTTP 400 in every state, with or without a stored
\* profile; it makes no completion call and leaves the transcript unchanged.
C10_InvalidContentRejected ==
  [][ ( Ran(lastStep', "POST /api/chat/message") /\ InvalidContent(lastStep'.input.content) )
      => /\ lastResponse'.status = 400
         /\ chatRequests' = chatRequests
         /\ chatHistory' = chatHistory
    ]_vars

\* A message whose content is a number has been answered with 400 while a
\* profile is stored and another chat call waits for its completion.
C10_Witness ==
  /\ Ran(lastStep, "POST /api/chat/message")
  /\ lastStep.input.content = Some(JsNumber("7"))
  /\ lastResponse.status = 400
  /\ profile # None
  /\ chatRequests # {}

\* Whether a request of the given kind is among those recorded so far.
HasEvent(type) == \E k \in 1..Len(events) : events[k].type = type

NoPhotosStored == profile = None \/ Len(Val(profile).photos) = 0

\* C11: GET /api/profile answers 404 exactly when no profile POST has
\* succeeded, and 200 otherwise; GET /api/simulations/results answers 404
\* exactly when no simulation run has completed; GET /api/photos/verification
\* answers 404 exactly when no profile is stored or its photo list is empty,
\* and otherwise goes on to analyzePhotos and answers 200. A stored profile
\* and a stored summary stay stored, so the first two never go back to 404.
C11_NotFoundExactlyWhenAbsent ==
  [][ /\ Ran(lastStep', "GET /api/profile") =>
           /\ lastResponse'.status = 404 <=> ~HasEvent("profile")
           /\ lastResponse'.status \in {200, 404}
      /\ Ran(lastStep', "GET /api/simulations/results") =>
           /\ lastResponse'.status = 404 <=> ~HasEvent("simEnd")
           /\ lastResponse'.status \in {200, 404}
      /\ Ran(lastStep', "GET /api/photos/verification") =>
           IF NoPhotosStored
           THEN lastResponse'.status = 404 /\ photoRequests' = photoRequests
           ELSE \E req \in photoRequests' \ photoRequests : req.kind = "verify"
      /\ Ran(lastStep', "GET /api/photos/verification (response)") =>
           lastResponse'.status = 200
      /\ profile # None => profile' # None
      /\ simulationResults # None => simulationResults' # None
    ]_vars

\* GET /api/photos/verification answered 404 for a profile that overwrote one
\* with uploaded photos.
C11_Witness ==
  /\ Ran(lastStep, "GET /api/photos/verification")
  /\ lastResponse.status = 404
  /\ profile # None
  /\ \E i, j \in 1..Len(events) :
       i < j /\ events[i].type = "photos" /\ events[j].type = "profile"

\* The canned replies of callLLM's catch block.
CannedReplies ==
  {FallbackResponse(m) : m \in {"analyze my vibe", "scenario", "tips", "feeling", "hi"}}

\* C12: for POST /api/chat/message with a stored profile and non-empty string
\* content, a failure of the completion call is never propagated: the call is
\* started with the user message appended; whatever the completion call does,
\* the request is answered with success and exactly one agent reply, the one
\* returned, is appended to the transcript, after the request's user message.
C12_CompletionFailureNotPropagated ==
  [][ /\ ( /\ Ran(lastStep', "POST /api/chat/message")
            /\ ~InvalidContent(lastStep'.input.content)
            /\ profile # None )
          => /\ Len(chatHistory') = Len(chatHistory) + 1
             /\ chatHistory'[Len(chatHistory')].sender = "user"
             /\ \E req \in chatRequests' \ chatRequests :
                  req.rid = chatHistory'[Len(chatHistory')].id
      /\ Ran(lastStep', "POST /api/chat/message (response)")
          => /\ lastResponse'.status = 200
             /\ lastResponse'.body.success
             /\ chatHistory' = Append(chatHistory, lastResponse'.body.message)
             /\ lastResponse'.body.message.sender = "agent"
             /\ \E req \in chatRequests \ chatRequests' :
                  \E k \in 1..Len(chatHistory) :
                    chatHistory[k].id = req.rid /\ chatHistory[k].sender = "user"
    ]_vars

\* A chat call whose completion call failed has been answered with success
\* and a canned reply.
C12_Witness ==
  /\ Ran(lastStep, "POST /api/chat/message (response)")
  /\ lastResponse.status = 200
  /\ lastResponse.body.message.content \in CannedReplies
  /\ chatHistory[Len(chatHistory)] = lastResponse.body.message

IsPrefix(s, t) == Len(s) <= Len(t) /\ SubSeq(t, 1, Len(s)) = s

\* The ids are handed out in the order of the insertions.
InInsertionOrder(messages) ==
  \A i, j \in 1..Len(messages) : i < j => messages[i].id < messages[j].id

\* C13: the transcript is append-only: each step of the server leaves the
\* transcript it found as a prefix of the new one (hence the transcript of any
\* earlier state is a prefix of that of every later state: nothing is removed,
\* reordered or changed), and GET /api/chat/history returns the whole
\* transcript, in insertion order.
C13_TranscriptAppendOnly ==
  [][ /\ IsPrefix(chatHistory, chatHistory')
      /\ InInsertionOrder(chatHistory')
      /\ Ran(lastStep', "GET /api/chat/history") =>
           /\ lastResponse'.status = 200
           /\ lastResponse'.body.messages = chatHistory
    ]_vars

\* GET /api/chat/history has returned a transcript written by two profile
\* posts and a chat call.
C13_Witness ==
  /\ Ran(lastStep, "GET /api/chat/history")
  /\ lastResponse.body.messages = chatHistory
  /\ Len(chatHistory) = 4
  /\ \E k \in 1..4 : chatHistory[k].sender = "user"
  /\ Cardinality({k \in 1..Len(events) : events[k].type = "profile"}) = 2

\* The runs that have completed, in the order in which they finished.
IsSimEnd(e) == e.type = "simEnd"
CompletedRuns == SelectSeq(events, IsSimEnd)

\* C14: the simulation summary is a single slot replaced on each run: a run
\* that completes stores the summary it returns, no other step touches the
\* slot, so after any sequence of runs, overlapping ones included, the slot
\* holds the summary of the run that finished last, and that is what GET
\* /api/simulations/results returns.
C14_SummarySingleSlot ==
  [][ /\ IF Ran(lastStep', "POST /api/simulations/run (response)")
            /\ lastResponse'.status = 200
         THEN simulationResults' = Some(lastResponse'.body.results)
         ELSE simulationResults' = simulationResults
      /\ CompletedRuns # <<>> =>
           /\ simulationResults # None
           /\ ToString(Val(simulationResults).average_compatibility)
                = CompletedRuns[Len(CompletedRuns)].data
      /\ ( Ran(lastStep', "GET /api/simulations/results") /\ simulationResults # None )
          => lastResponse' = Response(200, [success |-> TRUE,
                                            results |-> Val(simulationResults)])
    ]_vars

\* Two overlapping runs have completed with different summaries, the one
\* started first finishing last, and GET /api/simulations/results has
\* returned the summary of the run that finished last.
C14_Witness ==
  /\ Ran(lastStep, "GET /api/simulations/results")
  /\ lastResponse.status = 200
  /\ Len(CompletedRuns) = 2
  /\ CompletedRuns[1].data # CompletedRuns[2].data
  /\ CompletedRuns[2].rid < CompletedRuns[1].rid
  /\ ToString(lastResponse.body.results.average_compatibility) = CompletedRuns[2].data

\* A POST /api/photos that is accepted: it carries files and a profile is
\* stored; the handler writes the photo list and goes on to analyzePhotos.
UploadAccepted ==
  /\ Ran(lastStep', "POST /api/photos")
  /\ photoRequests' # photoRequests

OtherFieldsUnchanged ==
  \A f \in DOMAIN Val(profile) \ {"photos"} : Val(profile')[f] = Val(profile)[f]

\* C15 as stated: a successful POST /api/photos adds the uploaded filenames to
\* the stored photo list: the filenames stored by earlier uploads are still in
\* the list afterwards, and every other profile field is unchanged.
C15_UploadAddsFilenames ==
  [][ UploadAccepted =>
        /\ \A name \in Range(Val(profile).photos) : name \in Range(Val(profile').photos)
        /\ OtherFieldsUnchanged
    ]_vars

\* C15, as the code has it: a successful POST /api/photos sets the stored
\* photo list to exactly the filenames of this upload, in upload order, so the
\* filenames stored by earlier uploads are no longer in the list; every other
\* profile field is unchanged, and the response returns the same filenames.
C15_UploadReplacesFilenames ==
  [][ /\ UploadAccepted =>
           /\ \E req \in photoRequests' \ photoRequests :
                /\ req.kind = "upload"
                /\ Len(req.photoPaths) = lastStep'.input.files
                /\ Val(profile').photos = req.photoPaths
           /\ \A name \in Range(Val(profile).photos) :
                name \notin Range(Val(profile').photos)
           /\ OtherFieldsUnchanged
      /\ Ran(lastStep', "POST /api/photos (response)") =>
           /\ lastResponse'.status = 200
           /\ \E req \in photoRequests \ photoRequests' :
                lastResponse'.body.photos = req.photoPaths
    ]_vars

\* A second upload of two files to a profile that held the file of a first
\* upload: the list holds the two new filenames only.
C15_Witness ==
  /\ Len(events) = 3
  /\ events[1].type = "profile" /\ events[2].type = "photos" /\ events[3].type = "photos"
  /\ Val(profile).photos = <<Filename(events[3].rid), Filename(events[3].rid + 1)>>
  /\ Ran(lastStep, "POST /api/photos")

ToneFields == {"positivity", "playfulness", "responseLength"}

\* C16 as stated: a successful POST /api/profile stores each texting-tone
\* field equal to the submitted value whenever a value in [0,100] is
\* submitted, and equal to 50 only when the field is missing from the
\* submitted textingTone; so every stored tone value is in [0,100].
C16_ToneStoredAsSubmitted ==
  [][ ( Ran(lastStep', "POST /api/profile") /\ lastResponse'.status = 200 ) =>
        LET submitted == lastStep'.input.textingTone
            stored    == Val(profile').textingTone
        IN  \A f \in ToneFields :
              /\ ( f \in DOMAIN submitted /\ submitted[f] \in 0..100 )
                   => stored[f] = submitted[f]
              /\ f \notin DOMAIN submitted => stored[f] = 50
              /\ stored[f] \in 0..100
    ]_vars

TheLLMCall == Val(llmCall)
TheResultOfLLM == Val(TheLLMCall.result)
LLMCalled == IsDefined(llmCall) /\ IsDefined(TheLLMCall.result)
StartsWith(s, prefix) == Len(s) >= Len(prefix) /\ SubSeq(s, 1, Len(prefix)) = prefix

\* The rule that comes first among those the chosen words match; 5 is the
\* generic reply.
FirstRule(chosen) ==
  IF 1 \in chosen /\ 2 \in chosen THEN 1
  ELSE IF 3 \in chosen \/ 4 \in chosen THEN 2
  ELSE IF 5 \in chosen \/ 6 \in chosen THEN 3
  ELSE IF 7 \in chosen \/ 8 \in chosen THEN 4
  ELSE 5

\* How the canned reply of each rule begins.
ReplyOpening ==
  << "Based on your texting style, you come across as friendly",
     "{\"match_archetype\":\"Adventurous Extrovert\"",
     "Here are some personalized tips:",
     "I'd love to check in with you!",
     "That's interesting! Tell me more about that." >>

\* C17: when the completion call fails, callLLM returns the canned reply of
\* the first matching rule, testing the lower-cased last message of the
\* context in this order: contains 'analyze' and 'vibe'; contains
\* 'simulation' or 'scenario'; contains 'coaching' or 'tips'; contains
\* 'check in' or 'feeling'; otherwise the generic reply. A message matching
\* several rules gets the reply of the earliest one, wherever in the message
\* the words stand and however they are capitalised.
C17_FallbackLadder ==
  ( LLMCalled /\ ~TheLLMCall.outcome.ok ) =>
    StartsWith(TheResultOfLLM, ReplyOpening[FirstRule(TheLLMCall.chosen)])

\* A failed call whose last message holds 'TIPS' before 'SCENARIO' and
\* 'Vibe' without 'analyze': rules 2 and 3 match, and rule 2 answered.
C17_Witness ==
  /\ LLMCalled
  /\ ~TheLLMCall.outcome.ok
  /\ TheLLMCall.chosen = {2, 4, 6}
  /\ StartsWith(TheLLMCall.messages[2].content, "so TIPS SCENARIO Vibe")
  /\ StartsWith(TheResultOfLLM, ReplyOpening[2])

\* The opening line of the scenarios whose index is r modulo 4.
OpeningLines ==
  << "Hey! I noticed you mentioned hiking in your profile. What got you into that?",
     "Hi there! Your profile caught my eye - you seem like someone who loves adventure.",
     "Hey! Quick question: morning person or night owl?",
     "Hi! I had to reach out - your vibe seems amazing." >>

\* C18: the generator's selections are cyclic in the index: the record of
\* index i (the (i+1)-th of a run's batch) has match_archetype
\* archetypes[i mod 10], so indices i and i + 10 give the same archetype, and
\* its opening line is fixed by i mod 4, whatever the profile summary and the
\* random draw.
C18_SelectionsCyclic ==
  \A k \in 1..Len(simulations) :
    LET i == k - 1
    IN  /\ simulations[k].match_archetype = archetypes[(i % 10) + 1]
        /\ simulations[k].match_initial_message = OpeningLines[(i % 4) + 1]
        /\ k + 10 <= Len(simulations) =>
             simulations[k + 10].match_archetype = simulations[k].match_archetype
        /\ \A j \in 1..Len(simulations) :
             (j - k) % 4 = 0 =>
               simulations[j].match_initial_message = simulations[k].match_initial_message

\* A batch with the records of indices 9 and 19, which differ in their score
\* and agree in their archetype, the last of the list.
C18_Witness ==
  /\ Len(simulations) >= 20
  /\ simulations[10].match_archetype = "Fitness Enthusiast"
  /\ simulations[20].match_archetype = "Fitness Enthusiast"
  /\ simulations[10].compatibility_score # simulations[20].compatibility_score

\* The fixed list of issue strings, by number.
IssueStrings ==
  << "May come across as too eager - balance enthusiasm with letting conversation breathe",
     "Could benefit from asking more follow-up questions to show genuine interest",
     "Responses might be too brief - consider sharing a bit more to keep momentum",
     "Watch for over-sharing too early - build rapport gradually" >>

RecordsWithIssue(issue) ==
  Cardinality({k \in 1..Len(simulations) : simulations[k].potential_issue = issue})

\* C19: the record of index i reports no issue exactly when i mod 5 = 4 and
\* otherwise reports issue number i mod 5 of the fixed list; hence in the
\* batch of indices 0..49 exactly 10 scenarios have no issue and each of the 4
\* issue strings occurs exactly 10 times.
C19_IssueByIndex ==
  /\ \A k \in 1..Len(simulations) :
       LET i == k - 1
       IN  /\ simulations[k].potential_issue = None <=> i % 5 = 4
           /\ i % 5 # 4 => simulations[k].potential_issue = Some(IssueStrings[(i % 5) + 1])
  /\ Len(simulations) = 50 =>
       /\ RecordsWithIssue(None) = 10
       /\ \A n \in 1..4 : RecordsWithIssue(Some(IssueStrings[n])) = 10

\* The whole batch of a run, with its last record free of issues.
C19_Witness ==
  /\ Len(simulations) = 50
  /\ simulations[50].potential_issue = None
  /\ simulations[49].potential_issue = Some(IssueStrings[4])
  /\ RecordsWithIssue(None) = 10

\* The start and the completion messages of simulation runs in a transcript.
IsStartMessage(m) ==
  m.sender = "agent" /\ StartsWith(m.content, "Great! I'm going to run 50 simulated")
IsCompletionMessage(m) ==
  m.sender = "agent" /\ StartsWith(m.content, "Simulations complete!")
StartMessages == Len(SelectSeq(chatHistory, IsStartMessage))
CompletionMessages == Len(SelectSeq(chatHistory, IsCompletionMessage))

\* C20: a POST /api/simulations/run made with a stored profile appends its
\* start message before any scenario is generated (the run is then waiting,
\* its summary not yet there); when the run is over it saves the summary and
\* appends its completion message, which is the message it returns. So in
\* every state a completion message in the transcript implies that a summary
\* is stored, and completion messages never outnumber start messages.
C20_RunMessagesInOrder ==
  [][ /\ ( Ran(lastStep', "POST /api/simulations/run") /\ profile # None ) =>
           /\ Len(chatHistory') = Len(chatHistory) + 1
           /\ IsStartMessage(chatHistory'[Len(chatHistory')])
           /\ \E req \in simRequests' \ simRequests :
                req.rid = chatHistory'[Len(chatHistory')].id
           /\ UNCHANGED simulationResults
      /\ ( Ran(lastStep', "POST /api/simulations/run (response)")
            /\ lastResponse'.status = 200 ) =>
           /\ simulationResults' = Some(lastResponse'.body.results)
           /\ chatHistory' = Append(chatHistory, lastResponse'.body.message)
           /\ IsCompletionMessage(lastResponse'.body.message)
           /\ \E req \in simRequests \ simRequests' :
                \E k \in 1..Len(chatHistory) :
                  chatHistory[k].id = req.rid /\ IsStartMessage(chatHistory[k])
      /\ CompletionMessages > 0 => simulationResults # None
      /\ CompletionMessages <= StartMessages
      /\ CompletionMessages' > 0 => simulationResults' # None
      /\ CompletionMessages' <= StartMessages'
    ]_vars

\* Of two overlapping runs one has completed and returned its completion
\* message; the other is still waiting.
C20_Witness ==
  /\ Ran(lastStep, "POST /api/simulations/run (response)")
  /\ lastResponse.status = 200
  /\ chatHistory[Len(chatHistory)] = lastResponse.body.message
  /\ StartMessages = 2
  /\ CompletionMessages = 1
  /\ simRequests # {}
  /\ simulationResults = Some(lastResponse.body.results)

ChatAccepted ==
  /\ Ran(lastStep', "POST /api/chat/message")
  /\ chatRequests' # chatRequests

Min(a, b) == IF a <= b THEN a ELSE b

\* C22: the completion call made by POST /api/chat/message receives the
\* system prompt followed by the last min(10, length) transcript entries in
\* transcript order, user entries as role user and agent entries as role
\* assistant, and the final entry is that request's own user message, also
\* when other chat, profile or simulation requests overlap with it.
C22_CompletionContext ==
  [][ ChatAccepted =>
        \E req \in chatRequests' \ chatRequests :
          LET context == req.messages
              length  == Len(chatHistory')
              n       == Min(10, length)
          IN  /\ Len(context) = 1 + n
              /\ context[1] = [role |-> "system", content |-> systemPrompt(Val(profile))]
              /\ \A k \in 1..n :
                   LET entry == chatHistory'[length - n + k]
                   IN  /\ context[1 + k].content = entry.content
                       /\ context[1 + k].role = "user" <=> entry.sender = "user"
                       /\ context[1 + k].role = "assistant" <=> entry.sender = "agent"
              /\ context[1 + n] =
                   [role |-> "user", content |-> Val(lastStep'.input.content).text]
              /\ chatHistory'[length].id = req.rid
    ]_vars

\* A chat call accepted with more than 10 entries before it in the
\* transcript, while a simulation run is waiting: its context is the
\* system prompt and the last 10 entries.
C22_Witness ==
  /\ Ran(lastStep, "POST /api/chat/message")
  /\ Len(chatHistory) > 13
  /\ simRequests # {}
  /\ \E req \in chatRequests :
       /\ req.rid = chatHistory[Len(chatHistory)].id
       /\ Len(req.messages) = 11
       /\ \E k \in 2..10 : req.messages[k].content = StartContent

TheTipsCall == Val(tipsCall)
TheTips == Val(TheTipsCall.result)
TipsCalled == IsDefined(tipsCall) /\ IsDefined(TheTipsCall.result)

\* The tips in rule order, each with the condition under which its rule emits it.
TipRules(call) ==
  LET tone    == call.profile.textingTone
      average == call.avgCompatibility
      common  == call.commonIssues
  IN << [ fires |-> average >= 75,
          tip   |-> "Your vibe is strong! Keep being authentic and let your personality shine through." ],
        [ fires |-> average < 75 /\ average >= 60,
          tip   |-> "You have good potential. Focus on showing more of your unique interests and values." ],
        [ fires |-> average < 60,
          tip   |-> "Consider refining your approach. Be more specific about your interests and what makes you unique." ],
        [ fires |-> tone.positivity < 50,
          tip   |-> "Try incorporating more positive language and enthusiasm in your messages." ],
        [ fires |-> tone.playfulness < 40,
          tip   |-> "Don't be afraid to be a bit more playful and show your sense of humor." ],
        [ fires |-> tone.playfulness > 80,
          tip   |-> "Balance your playfulness with moments of genuine depth and sincerity." ],
        [ fires |-> tone.responseLength < 30,
          tip   |-> "Your responses might be too brief. Try sharing a bit more to keep conversations flowing." ],
        [ fires |-> tone.responseLength > 80,
          tip   |-> "Keep your messages concise. Long responses can sometimes overwhelm the conversation." ],
        [ fires |-> \E k \in 1..Len(common) : Includes(common[k], "question"),
          tip   |-> "Ask more open-ended questions to show genuine interest and keep the conversation balanced." ],
        [ fires |-> \E k \in 1..Len(common) :
                      Includes(common[k], "eager") \/ Includes(common[k], "enthusias"),
          tip   |-> "Let conversations breathe naturally. Sometimes less is more when building connection." ] >>

RuleFires(rule) == rule.fires
FiredTips(call) ==
  LET fired == SelectSeq(TipRules(call), RuleFires)
  IN  [k \in 1..Len(fired) |-> fired[k].tip]
EagerTip == "Let conversations breathe naturally. Sometimes less is more when building connection."

\* C23: generateCoachingTips emits its tips in a fixed rule order: exactly one
\* score-band tip first, then the positivity tip, at most one playfulness
\* tip, at most one response-length tip, the question tip and the eager tip;
\* it returns the first 5 of them, so the result is never empty, and when
\* six rules fire the eager tip is the one dropped.
C23_TipsInRuleOrder ==
  TipsCalled =>
    LET fired == FiredTips(TheTipsCall)
    IN  /\ Len(fired) \in 1..6
        /\ Cardinality({k \in 1..3 : TipRules(TheTipsCall)[k].fires}) = 1
        /\ Len(TheTips) = Min(5, Len(fired))
        /\ Len(TheTips) >= 1
        /\ IsPrefix(TheTips, fired)
        /\ TheTips[1] = fired[1]
        /\ Len(fired) = 6 =>
             /\ fired[6] = EagerTip
             /\ \A k \in 1..Len(TheTips) : TheTips[k] # EagerTip

\* A call in which all six rules fire: five tips come back.
C23_Witness ==
  /\ TipsCalled
  /\ Len(FiredTips(TheTipsCall)) = 6
  /\ Len(TheTips) = 5
  /\ TheTipsCall.avgCompatibility < 60

\* The chat calls that were answered, as their chatEnd events.
AnsweredChats == {k \in 1..Len(events) : events[k].type = "chatEnd"}

\* C24 as stated: when POST /api/chat/message requests overlap, every call
\* adds exactly two entries to the transcript (four for two calls), and each
\* user message is immediately followed by the agent reply to that same
\* message: the pairs are never interleaved with another request's entries.
C24_ChatPairsNeverInterleaved ==
  /\ [][ ( Ran(lastStep', "POST /api/chat/message") \/
           Ran(lastStep', "POST /api/chat/message (response)") )
         => ( Len(chatHistory') = Len(chatHistory) + 1 \/ lastResponse'.status \in {400, 404} )
      ]_vars
  /\ [] ( \A e \in AnsweredChats :
            \E k \in 1..(Len(chatHistory) - 1) :
              /\ chatHistory[k].id = events[e].rid
              /\ chatHistory[k].sender = "user"
              /\ chatHistory[k + 1].sender = "agent"
              /\ chatHistory[k + 1].content = events[e].data )

\* C25: the frontend step only moves forward.  It starts at onboarding; it
\* moves to photos only when onboarding completes (the profile was created);
\* it moves to chat when the photo step completes or is skipped, or when the
\* profile check on load finds a profile; it never leaves chat.  The loading
\* flag becomes false whether the profile check succeeds or fails, and stays so.
C25_StepOnlyMovesForward ==
  /\ currentStep = "onboarding" /\ loading = TRUE
  /\ [][ currentStep' # currentStep =>
           \/ /\ currentStep = "onboarding" /\ currentStep' = "photos"
              /\ screen.component = "Onboarding" /\ screen.loading
              /\ screen'.component = "PhotoUpload"
           \/ /\ currentStep = "photos" /\ currentStep' = "chat"
              /\ screen.component = "PhotoUpload"
              /\ screen'.component = "Chat"
           \/ /\ currentStep = "onboarding" /\ currentStep' = "chat"
              /\ appCheck = "pending" /\ appCheck' = "done"
              /\ screen'.component = "Chat"
      ]_vars
  /\ [][ currentStep = "chat" => currentStep' = "chat" ]_vars
  /\ [][ loading = FALSE => loading' = FALSE ]_vars
  /\ [][ loading' # loading => (appCheck = "pending" /\ appCheck' = "done") ]_vars
  /\ <>(loading = FALSE)

\* The profile check found no profile, onboarding completed, and the photo
\* step shows a verification: the step is photos, one click away from chat.
C25_Witness ==
  /\ currentStep = "photos"
  /\ loading = FALSE
  /\ appCheck = "done"
  /\ screen.component = "PhotoUpload"
  /\ IsDefined(screen.verification)

OverSharingIssue == "Watch for over-sharing too early - build rapport gradually"

\* C26: for every run of runSimulations, whatever scores are drawn,
\* common_issues is exactly the first three strings of the generator's issue
\* list in list order (too eager, follow-up questions, too brief), the
\* over-sharing issue never appears, and areas_to_improve is the three
\* corresponding remediations in that same order.
C26_CommonIssuesAreFirstThree ==
  (simPc = "done" /\ IsDefined(summary)) =>
    /\ TheSummary.common_issues =
         << "May come across as too eager - balance enthusiasm with letting conversation breathe",
            "Could benefit from asking more follow-up questions to show genuine interest",
            "Responses might be too brief - consider sharing a bit more to keep momentum" >>
    /\ \A k \in 1..Len(TheSummary.common_issues) :
         TheSummary.common_issues[k] # OverSharingIssue
    /\ TheSummary.vibe_analysis.areas_to_improve =
         << "Let conversations develop naturally without rushing",
            "Ask more engaging questions to show genuine curiosity",
            "Share more details to give matches something to respond to" >>

\* A finished run of 50 records, 10 of them with the over-sharing issue,
\* whose scores are not all the same.
C26_Witness ==
  /\ simPc = "done"
  /\ IsDefined(summary)
  /\ Len(TheSummary.common_issues) = 3
  /\ Cardinality({k \in 1..Len(simulations) :
                    simulations[k].potential_issue = Some(OverSharingIssue)}) = 10
  /\ \E i, j \in 1..Len(simulations) :
       simulations[i].compatibility_score # simulations[j].compatibility_score

\* The runs that were answered with HTTP 500, as their simFail events.
FailedRuns == {k \in 1..Len(events) : events[k].type = "simFail"}

\* C27 as stated: when POST /api/simulations/run is answered with an error
\* status (404 without a stored profile, 500 when the run throws), the store
\* is the same as before the request: no message of the request is in the
\* transcript and the stored summary is unchanged.
C27_FailedRunLeavesStoreUnchanged ==
  /\ [][ ( Ran(lastStep', "POST /api/simulations/run") /\ simRequests' = simRequests )
         => ( lastResponse'.status = 404 /\ UNCHANGED storeVars )
      ]_vars
  /\ [][ ( Ran(lastStep', "POST /api/simulations/run (response)") /\ lastResponse'.status = 500 )
         => simulationResults' = simulationResults
      ]_vars
  /\ [] ( \A e \in FailedRuns :
            \A k \in 1..Len(chatHistory) : chatHistory[k].id # events[e].rid )

IsWelcomeMessage(m) ==
  /\ m.sender = "agent"
  /\ StartsWith(m.content, "Hey ")
  /\ Includes(m.content, "! I'm your AI dating coach.")
WelcomeMessages == SelectSeq(chatHistory, IsWelcomeMessage)
IsProfileEvent(e) == e.type = "profile"
ProfilePosts == SelectSeq(events, IsProfileEvent)

\* C28: POST /api/profile changes only the profile slot and appends exactly
\* one welcome message: every earlier transcript entry and the stored
\* simulation summary are left unchanged.  So the transcript holds one welcome
\* message per accepted POST (two after a second one), and GET
\* /api/simulations/results still returns the summary stored before it.
C28_ProfilePostFrame ==
  /\ [][ ( Ran(lastStep', "POST /api/profile") /\ lastResponse'.status = 200 )
         => /\ simulationResults' = simulationResults
            /\ Len(chatHistory') = Len(chatHistory) + 1
            /\ SubSeq(chatHistory', 1, Len(chatHistory)) = chatHistory
            /\ chatHistory'[Len(chatHistory')].sender = "agent"
            /\ chatHistory'[Len(chatHistory')].content = WelcomeContent(Val(profile'))
            /\ IsWelcomeMessage(chatHistory'[Len(chatHistory')])
            /\ lastResponse'.body.profile = Val(profile')
      ]_vars
  /\ [][ ( Ran(lastStep', "GET /api/simulations/results") /\ IsDefined(simulationResults) )
         => /\ lastResponse'.status = 200
            /\ lastResponse'.body.results = Val(simulationResults)
      ]_vars
  /\ [] ( Len(WelcomeMessages) = Len(ProfilePosts) )

\* A profile, a completed run, a second profile with another name, and then
\* GET /api/simulations/results: two welcome messages, and the answer is the
\* summary of the run made for the first profile.
C28_Witness ==
  /\ Ran(lastStep, "GET /api/simulations/results")
  /\ lastResponse.status = 200
  /\ Len(WelcomeMessages) = 2
  /\ Len(CompletedRuns) = 1
  /\ \E i, j, k \in 1..Len(events) :
       /\ i < j /\ j < k
       /\ events[i].type = "profile"
       /\ events[j].type = "simEnd"
       /\ events[k].type = "profile"
       /\ events[i].data # events[k].data
       /\ ToString(lastResponse.body.results.average_compatibility) = events[j].data

\* An HTTP answer that carries a verification result.
VerificationAnswered(response) ==
  response.status = 200 /\ "verification" \in DOMAIN response.body

\* C29: no verification result returned by an HTTP endpoint has status
\* failed.  POST /api/photos and GET /api/photos/verification analyze only
\* non-empty filename lists; one filename gives success, and for two or more
\* the confidence is at least 80, so the status is success or inconclusive.
C29_NoFailedVerificationOverHttp ==
  /\ [] ( VerificationAnswered(lastResponse) =>
            /\ lastResponse.body.verification.status # "failed"
            /\ lastResponse.body.verification.status \in {"success", "inconclusive"} )
  /\ [][ ( VerificationAnswered(lastResponse') /\ photoRequests \ photoRequests' # {} ) =>
           \E req \in photoRequests \ photoRequests' :
             LET n == Len(req.photoPaths)
                 verification == lastResponse'.body.verification
             IN  /\ n >= 1
                 /\ n = 1 => ( verification.status = "success" /\ verification.confidence = 75 )
                 /\ n >= 2 => verification.confidence >= 80
      ]_vars

\* Both endpoints answered for two files with the lowest draw: the upload
\* first, and here GET /api/photos/verification with confidence 80.
C29_Witness ==
  /\ Ran(lastStep, "GET /api/photos/verification (response)")
  /\ VerificationAnswered(lastResponse)
  /\ lastResponse.body.verification.status = "inconclusive"
  /\ lastResponse.body.verification.confidence = 80
  /\ Len(Val(profile).photos) >= 2
  /\ HasEvent("photos")

StrongTip == "Your vibe is strong! Keep being authentic and let your personality shine through."
PotentialTip == "You have good potential. Focus on showing more of your unique interests and values."
RefineTip == "Consider refining your approach. Be more specific about your interests and what makes you unique."
Impression == TheSummary.vibe_analysis.overall_impression

\* C30: in every summary produced by runSimulations the score-band coaching
\* tip and the overall-impression paragraph are chosen from the same band,
\* both for an average of 75 or more or both for an average in [60, 75); the
\* tip and the impression for an average below 60 are never produced.
C30_TipAndImpressionSameBand ==
  (simPc = "done" /\ IsDefined(summary)) =>
    LET average == TheSummary.average_compatibility
        tips    == TheSummary.coaching_tips
    IN  /\ average >= 60
        /\ \/ /\ average >= 75
              /\ tips[1] = StrongTip
              /\ StartsWith(Impression, "You come across as ")
           \/ /\ average < 75
              /\ tips[1] = PotentialTip
              /\ StartsWith(Impression, "You have a ")
        /\ \A k \in 1..Len(tips) : tips[k] # RefineTip
        /\ ~StartsWith(Impression, "Your communication style is ")

\* A finished run whose average lies in the lower band, between 60 and 75.
C30_Witness ==
  /\ simPc = "done"
  /\ IsDefined(summary)
  /\ TheSummary.average_compatibility > 60
  /\ TheSummary.average_compatibility < 75
  /\ TheSummary.coaching_tips[1] = PotentialTip

====
